---- MODULE Spec2Model ----
(***************************************************************************)
(* The in-memory TodoStore of the todo-api example service                 *)
(* (src/unnamed/part_011, lines 80-347) as a state machine.                *)
(*                                                                         *)
(* Representation of JavaScript values:                                    *)
(*   - a string is a sequence of one-character strings, "" is <<>>;        *)
(*   - an ISO timestamp produced by new Date().toISOString() is the        *)
(*     integer number of clock ticks, a tick being a millisecond (all such *)
(*     strings have one fixed format, so their string order is the order   *)
(*     of the instants);                                                   *)
(*   - a dueDate, an ISO timestamp a client wrote, is a record of its      *)
(*     second and its fraction, which the text may leave out: see IsoText; *)
(*   - a value of type T | null is Null or Some(v);                        *)
(*   - a result of type Todo | undefined is Undefined or Some(todo);       *)
(*   - the value a call returned is kept by type: see NoResult;            *)
(*   - an input object is a record that holds only the fields supplied,    *)
(*     so "field absent" is "field not in DOMAIN".                         *)
(***************************************************************************)
EXTENDS Integers, Sequences, FiniteSets, TLC

\* ------------------------------------------------------------------ bounds
\* number of create calls in a behaviour
MaxCreates == 2
\* last tick of the clock; calls go on at that tick once it is reached
MaxClock == 1

\* ------------------------------------------------------------- JS values
Null == <<>>
Undefined == <<>>
Some(v) == <<v>>
Get(o) == o[1]
Has(obj, f) == f \in DOMAIN obj

TodoStatus == {"pending", "in_progress", "completed", "cancelled"}
TodoPriority == {"low", "medium", "high", "urgent"}

\* an order of the priorities by their names
PRIORITY_ORDER_byName(p) ==
  CASE p = "high" -> 1
    [] p = "low" -> 2
    [] p = "medium" -> 3
    [] p = "urgent" -> 4

PRIORITY_ORDER(p) ==
  CASE p = "urgent" -> 4
    [] p = "high" -> 3
    [] p = "medium" -> 2
    [] p = "low" -> 1

VARIABLES
  todos,    \* the Map's entries in insertion order: a sequence of Todo records
  clock,    \* the last value new Date() returned
  nextId,   \* the identifier the next uuidv4() call returns
  call,     \* the last call made on the store: its name and arguments
  ret,      \* what that call returned, by its type
  issued,   \* the identifiers create() has returned since the store was built
  requests, \* the PATCH requests the server has received: waiting for their
            \* handler (status 0) or answered (the response status)
  tagArrays \* the tags arrays of the records in the Map: a set of blocks, a
            \* block being the ids of the records whose `tags` is one and the
            \* same array object

vars == <<todos, clock, nextId, call, ret, issued, requests, tagArrays>>

\* ------------------------------------------------------------- Map<string, Todo>
\* position of the entry with key id, 0 when there is none
IndexOf(ts, id) ==
  IF \E i \in 1..Len(ts) : ts[i].id = id
    THEN CHOOSE i \in 1..Len(ts) : ts[i].id = id
    ELSE 0

MapHas(ts, id) == IndexOf(ts, id) # 0

\* Map.get: the value, or undefined
MapGet(ts, id) ==
  IF MapHas(ts, id) THEN Some(ts[IndexOf(ts, id)]) ELSE Undefined

\* a map whose set moves the key to the end
MapSet_moveToEnd(ts, id, todo) ==
  Append(SelectSeq(ts, LAMBDA t : t.id # id), todo)

\* Map.set: an existing key keeps its position, a new key goes last
MapSet(ts, id, todo) ==
  IF MapHas(ts, id)
    THEN [ts EXCEPT ![IndexOf(ts, id)] = todo]
    ELSE Append(ts, todo)

\* Map.delete: the map without the key
MapDelete(ts, id) ==
  IF MapHas(ts, id)
    THEN SubSeq(ts, 1, IndexOf(ts, id) - 1) \o SubSeq(ts, IndexOf(ts, id) + 1, Len(ts))
    ELSE ts

\* ------------------------------------------------------------- TodoStore, pure parts
\* a create that stores every record under one identifier
createTodo_fixedId(input, id, now) ==
  [ id          |-> 1,
    title       |-> input.title,
    description |-> IF Has(input, "description") THEN Some(input.description) ELSE Null,
    status      |-> "pending",
    priority    |-> input.priority,
    dueDate     |-> IF Has(input, "dueDate") THEN Some(input.dueDate) ELSE Null,
    tags        |-> input.tags,
    createdAt   |-> now,
    updatedAt   |-> now,
    completedAt |-> Null,
    deletedAt   |-> Null ]

\* a create that stores an omitted description or dueDate as the empty text
createTodo_emptyForOmitted(input, id, now) ==
  [ id          |-> id,
    title       |-> input.title,
    description |-> IF Has(input, "description") THEN Some(input.description) ELSE Some(<<>>),
    status      |-> "pending",
    priority    |-> input.priority,
    dueDate     |-> IF Has(input, "dueDate") THEN Some(input.dueDate) ELSE Some(<<>>),
    tags        |-> input.tags,
    createdAt   |-> now,
    updatedAt   |-> now,
    completedAt |-> Null,
    deletedAt   |-> Null ]

\* the record create() builds; id is the value uuidv4() returned
createTodo(input, id, now) ==
  [ id          |-> id,
    title       |-> input.title,
    description |-> IF Has(input, "description") THEN Some(input.description) ELSE Null,
    status      |-> "pending",
    priority    |-> input.priority,
    dueDate     |-> IF Has(input, "dueDate") THEN Some(input.dueDate) ELSE Null,
    tags        |-> input.tags,
    createdAt   |-> now,
    updatedAt   |-> now,
    completedAt |-> Null,
    deletedAt   |-> Null ]

\* findById without the soft-delete check
findById_noDeletedCheck(ts, id, includeDeleted) == MapGet(ts, id)

\* findById(id, includeDeleted)
findById(ts, id, includeDeleted) ==
  LET todo == MapGet(ts, id) IN
  IF todo = Undefined THEN Undefined
  ELSE IF ~includeDeleted /\ Get(todo).deletedAt # Null THEN Undefined
  ELSE todo

\* a merge that keeps the status of a completed or cancelled todo
mergeTodo_closedStaysClosed(todo, input, now) ==
  [ id          |-> todo.id,
    title       |-> IF Has(input, "title") THEN input.title ELSE todo.title,
    description |-> IF Has(input, "description") THEN input.description ELSE todo.description,
    status      |-> IF Has(input, "status") /\ todo.status \notin {"completed", "cancelled"}
                      THEN input.status ELSE todo.status,
    priority    |-> IF Has(input, "priority") THEN input.priority ELSE todo.priority,
    dueDate     |-> IF Has(input, "dueDate") THEN input.dueDate ELSE todo.dueDate,
    tags        |-> IF Has(input, "tags") THEN input.tags ELSE todo.tags,
    createdAt   |-> todo.createdAt,
    updatedAt   |-> now,
    completedAt |-> todo.completedAt,
    deletedAt   |-> todo.deletedAt ]

\* a merge that takes an explicit null for "not supplied"
mergeTodo_nullAsAbsent(todo, input, now) ==
  [ id          |-> todo.id,
    title       |-> IF Has(input, "title") THEN input.title ELSE todo.title,
    description |-> IF Has(input, "description") /\ input.description # Null
                      THEN input.description ELSE todo.description,
    status      |-> IF Has(input, "status") THEN input.status ELSE todo.status,
    priority    |-> IF Has(input, "priority") THEN input.priority ELSE todo.priority,
    dueDate     |-> IF Has(input, "dueDate") /\ input.dueDate # Null
                      THEN input.dueDate ELSE todo.dueDate,
    tags        |-> IF Has(input, "tags") THEN input.tags ELSE todo.tags,
    createdAt   |-> todo.createdAt,
    updatedAt   |-> now,
    completedAt |-> todo.completedAt,
    deletedAt   |-> todo.deletedAt ]

\* the spread that builds `updated` in update()
mergeTodo(todo, input, now) ==
  [ id          |-> todo.id,
    title       |-> IF Has(input, "title") THEN input.title ELSE todo.title,
    description |-> IF Has(input, "description") THEN input.description ELSE todo.description,
    status      |-> IF Has(input, "status") THEN input.status ELSE todo.status,
    priority    |-> IF Has(input, "priority") THEN input.priority ELSE todo.priority,
    dueDate     |-> IF Has(input, "dueDate") THEN input.dueDate ELSE todo.dueDate,
    tags        |-> IF Has(input, "tags") THEN input.tags ELSE todo.tags,
    createdAt   |-> todo.createdAt,
    updatedAt   |-> now,
    completedAt |-> todo.completedAt,
    deletedAt   |-> todo.deletedAt ]

\* completion tracking that never clears completedAt
trackCompletion_noClear(todo, input, now) ==
  IF Has(input, "status") /\ input.status = "completed" /\ todo.status # "completed"
    THEN Some(now)
  ELSE todo.completedAt

\* completion tracking that clears completedAt also when no status is supplied
trackCompletion_clearWithoutStatus(todo, input, now) ==
  IF Has(input, "status") /\ input.status = "completed" /\ todo.status # "completed"
    THEN Some(now)
  ELSE IF ~(Has(input, "status") /\ input.status = "completed")
    THEN Null
  ELSE todo.completedAt

\* completion tracking that stamps completedAt on every update to completed
trackCompletion_refresh(todo, input, now) ==
  IF Has(input, "status") /\ input.status = "completed"
    THEN Some(now)
  ELSE IF Has(input, "status") /\ input.status # "completed"
    THEN Null
  ELSE todo.completedAt

\* "Track completion time": the completedAt of the updated record
trackCompletion(todo, input, now) ==
  IF Has(input, "status") /\ input.status = "completed" /\ todo.status # "completed"
    THEN Some(now)
  ELSE IF Has(input, "status") /\ input.status # "completed"
    THEN Null
  ELSE todo.completedAt

\* an update that derives completedAt from the status the record ends with
updatedTodo_stampByStatus(todo, input, now) ==
  [mergeTodo(todo, input, now) EXCEPT
     !.completedAt = IF mergeTodo(todo, input, now).status = "completed"
                       THEN Some(now) ELSE Null]

\* the record update() stores and returns for a live todo
updatedTodo(todo, input, now) ==
  [mergeTodo(todo, input, now) EXCEPT !.completedAt = trackCompletion(todo, input, now)]

\* a soft delete that also cancels the todo
deletedTodo_cancelled(todo, now) ==
  [todo EXCEPT !.deletedAt = Some(now), !.updatedAt = now,
               !.status = "cancelled", !.completedAt = Null]

\* a soft delete that leaves updatedAt as it was
deletedTodo_deletedAtOnly(todo, now) ==
  [todo EXCEPT !.deletedAt = Some(now)]

\* the record softDelete() stores and returns for a live todo
deletedTodo(todo, now) ==
  [todo EXCEPT !.deletedAt = Some(now), !.updatedAt = now]

\* a restore that leaves updatedAt as it was
restoredTodo_keepUpdatedAt(todo, now) ==
  [todo EXCEPT !.deletedAt = Null]

\* the record restore() stores and returns for a soft-deleted todo
restoredTodo(todo, now) ==
  [todo EXCEPT !.deletedAt = Null, !.updatedAt = now]

\* a guard that lets soft-deleted records through
liveTodo_includeDeleted(ts, id) == findById(ts, id, TRUE)

\* the guard of update() and softDelete(): findById(id) with the default flag
liveTodo(ts, id) == findById(ts, id, FALSE)

\* a guard that lets live records through
restorable_anyRecord(ts, id) == MapHas(ts, id)

\* the guard of restore(): the record exists and is soft-deleted
restorable(ts, id) ==
  LET todo == MapGet(ts, id) IN
  ~(todo = Undefined \/ Get(todo).deletedAt = Null)

\* ------------------------------------------------------------- strings
\* Texts are sequences of characters; the characters of the model are those
\* of Latin-1.
\* the upper-case letters and, at the same positions, their lower-case forms
UpperCase ==
  << "A", "B", "C", "D", "E", "F", "G", "H", "I", "J", "K", "L", "M",
     "N", "O", "P", "Q", "R", "S", "T", "U", "V", "W", "X", "Y", "Z",
     "À", "Á", "Â", "Ã", "Ä", "Å", "Æ", "Ç", "È", "É", "Ê", "Ë", "Ì",
     "Í", "Î", "Ï", "Ð", "Ñ", "Ò", "Ó", "Ô", "Õ", "Ö", "Ø", "Ù", "Ú",
     "Û", "Ü", "Ý", "Þ" >>
LowerCase ==
  << "a", "b", "c", "d", "e", "f", "g", "h", "i", "j", "k", "l", "m",
     "n", "o", "p", "q", "r", "s", "t", "u", "v", "w", "x", "y", "z",
     "à", "á", "â", "ã", "ä", "å", "æ", "ç", "è", "é", "ê", "ë", "ì",
     "í", "î", "ï", "ð", "ñ", "ò", "ó", "ô", "õ", "ö", "ø", "ù", "ú",
     "û", "ü", "ý", "þ" >>

\* String.prototype.toLowerCase on one character
lowerChar(c) ==
  IF \E i \in DOMAIN UpperCase : UpperCase[i] = c
    THEN LowerCase[CHOOSE i \in DOMAIN UpperCase : UpperCase[i] = c]
    ELSE c

toLowerCase(s) == [i \in 1..Len(s) |-> lowerChar(s[i])]

\* String.prototype.includes
includes(s, sub) ==
  \E i \in 0..(Len(s) - Len(sub)) : SubSeq(s, i + 1, i + Len(sub)) = sub

\* the grave accent as a one-character string
Backtick == SubSeq("`'", 1, 1)

\* the characters the collation ignores (control characters, soft hyphen)
Ignorable ==
  {"", "", "", "", "", "", "", "", "", "", "", "", "", "",
   "", "", "", "", "", "", "", "", "", "", "", "", "", "",
   "", "", "", "", "", "", "", "", "", "", "", "", "", "",
   "", "", "", "", "", "", "", "", "", "", "", "", "", "",
   "", "", "­"}

\* the collation elements of each character U+0001..U+00FF in the root
\* collation: <<primary, secondary, tertiary>> weights, 0 where the level
\* is ignored.  Weights are ranks: only their order matters.  An accented
\* letter is its base letter followed by an accent of primary 0; a ligature
\* or fraction expands to several elements; a capital or variant form
\* differs from its base in the tertiary weight only.
Collation ==
  ("\t" :> <<<<1, 1, 1>>>>)
  @@ ("\n" :> <<<<2, 1, 1>>>>)
  @@ ("" :> <<<<3, 1, 1>>>>)
  @@ ("\f" :> <<<<4, 1, 1>>>>)
  @@ ("\r" :> <<<<5, 1, 1>>>>)
  @@ ("" :> <<<<6, 1, 1>>>>)
  @@ (" " :> <<<<7, 1, 1>>>>)
  @@ (" " :> <<<<7, 1, 8>>>>)
  @@ ("_" :> <<<<8, 1, 1>>>>)
  @@ ("-" :> <<<<9, 1, 1>>>>)
  @@ ("," :> <<<<10, 1, 1>>>>)
  @@ (";" :> <<<<11, 1, 1>>>>)
  @@ (":" :> <<<<12, 1, 1>>>>)
  @@ ("!" :> <<<<13, 1, 1>>>>)
  @@ ("¡" :> <<<<14, 1, 1>>>>)
  @@ ("?" :> <<<<15, 1, 1>>>>)
  @@ ("¿" :> <<<<16, 1, 1>>>>)
  @@ ("." :> <<<<17, 1, 1>>>>)
  @@ ("·" :> <<<<18, 1, 1>>>>)
  @@ ("'" :> <<<<19, 1, 1>>>>)
  @@ ("\"" :> <<<<20, 1, 1>>>>)
  @@ ("«" :> <<<<21, 1, 1>>>>)
  @@ ("»" :> <<<<22, 1, 1>>>>)
  @@ ("(" :> <<<<23, 1, 1>>>>)
  @@ (")" :> <<<<24, 1, 1>>>>)
  @@ ("[" :> <<<<25, 1, 1>>>>)
  @@ ("]" :> <<<<26, 1, 1>>>>)
  @@ ("{" :> <<<<27, 1, 1>>>>)
  @@ ("}" :> <<<<28, 1, 1>>>>)
  @@ ("§" :> <<<<29, 1, 1>>>>)
  @@ ("¶" :> <<<<30, 1, 1>>>>)
  @@ ("@" :> <<<<31, 1, 1>>>>)
  @@ ("*" :> <<<<32, 1, 1>>>>)
  @@ ("/" :> <<<<33, 1, 1>>>>)
  @@ ("\\" :> <<<<34, 1, 1>>>>)
  @@ ("&" :> <<<<35, 1, 1>>>>)
  @@ ("#" :> <<<<36, 1, 1>>>>)
  @@ ("%" :> <<<<37, 1, 1>>>>)
  @@ (Backtick :> <<<<38, 1, 1>>>>)
  @@ ("´" :> <<<<39, 1, 1>>>>)
  @@ ("^" :> <<<<40, 1, 1>>>>)
  @@ ("¯" :> <<<<41, 1, 1>>>>)
  @@ ("¨" :> <<<<42, 1, 1>>>>)
  @@ ("¸" :> <<<<43, 1, 1>>>>)
  @@ ("°" :> <<<<44, 1, 1>>>>)
  @@ ("©" :> <<<<45, 1, 1>>>>)
  @@ ("®" :> <<<<46, 1, 1>>>>)
  @@ ("+" :> <<<<47, 1, 1>>>>)
  @@ ("±" :> <<<<48, 1, 1>>>>)
  @@ ("÷" :> <<<<49, 1, 1>>>>)
  @@ ("×" :> <<<<50, 1, 1>>>>)
  @@ ("<" :> <<<<51, 1, 1>>>>)
  @@ ("=" :> <<<<52, 1, 1>>>>)
  @@ (">" :> <<<<53, 1, 1>>>>)
  @@ ("¬" :> <<<<54, 1, 1>>>>)
  @@ ("|" :> <<<<55, 1, 1>>>>)
  @@ ("¦" :> <<<<56, 1, 1>>>>)
  @@ ("~" :> <<<<57, 1, 1>>>>)
  @@ ("¤" :> <<<<59, 1, 1>>>>)
  @@ ("¢" :> <<<<60, 1, 1>>>>)
  @@ ("$" :> <<<<61, 1, 1>>>>)
  @@ ("£" :> <<<<62, 1, 1>>>>)
  @@ ("¥" :> <<<<63, 1, 1>>>>)
  @@ ("0" :> <<<<64, 1, 1>>>>)
  @@ ("1" :> <<<<65, 1, 1>>>>)
  @@ ("¹" :> <<<<65, 1, 7>>>>)
  @@ ("½" :> <<<<65, 1, 10>>, <<58, 1, 5>>, <<66, 1, 10>>>>)
  @@ ("¼" :> <<<<65, 1, 10>>, <<58, 1, 5>>, <<68, 1, 10>>>>)
  @@ ("2" :> <<<<66, 1, 1>>>>)
  @@ ("²" :> <<<<66, 1, 7>>>>)
  @@ ("3" :> <<<<67, 1, 1>>>>)
  @@ ("³" :> <<<<67, 1, 7>>>>)
  @@ ("¾" :> <<<<67, 1, 10>>, <<58, 1, 5>>, <<68, 1, 10>>>>)
  @@ ("4" :> <<<<68, 1, 1>>>>)
  @@ ("5" :> <<<<69, 1, 1>>>>)
  @@ ("6" :> <<<<70, 1, 1>>>>)
  @@ ("7" :> <<<<71, 1, 1>>>>)
  @@ ("8" :> <<<<72, 1, 1>>>>)
  @@ ("9" :> <<<<73, 1, 1>>>>)
  @@ ("a" :> <<<<74, 1, 1>>>>)
  @@ ("A" :> <<<<74, 1, 4>>>>)
  @@ ("ª" :> <<<<74, 1, 9>>>>)
  @@ ("á" :> <<<<74, 1, 1>>, <<0, 3, 1>>>>)
  @@ ("Á" :> <<<<74, 1, 4>>, <<0, 3, 1>>>>)
  @@ ("à" :> <<<<74, 1, 1>>, <<0, 4, 1>>>>)
  @@ ("À" :> <<<<74, 1, 4>>, <<0, 4, 1>>>>)
  @@ ("â" :> <<<<74, 1, 1>>, <<0, 5, 1>>>>)
  @@ ("Â" :> <<<<74, 1, 4>>, <<0, 5, 1>>>>)
  @@ ("å" :> <<<<74, 1, 1>>, <<0, 6, 1>>>>)
  @@ ("Å" :> <<<<74, 1, 4>>, <<0, 6, 1>>>>)
  @@ ("ä" :> <<<<74, 1, 1>>, <<0, 7, 1>>>>)
  @@ ("Ä" :> <<<<74, 1, 4>>, <<0, 7, 1>>>>)
  @@ ("ã" :> <<<<74, 1, 1>>, <<0, 8, 1>>>>)
  @@ ("Ã" :> <<<<74, 1, 4>>, <<0, 8, 1>>>>)
  @@ ("æ" :> <<<<74, 2, 1>>, <<78, 1, 3>>>>)
  @@ ("Æ" :> <<<<74, 2, 5>>, <<78, 1, 6>>>>)
  @@ ("b" :> <<<<75, 1, 1>>>>)
  @@ ("B" :> <<<<75, 1, 4>>>>)
  @@ ("c" :> <<<<76, 1, 1>>>>)
  @@ ("C" :> <<<<76, 1, 4>>>>)
  @@ ("ç" :> <<<<76, 1, 1>>, <<0, 10, 1>>>>)
  @@ ("Ç" :> <<<<76, 1, 4>>, <<0, 10, 1>>>>)
  @@ ("d" :> <<<<77, 1, 1>>>>)
  @@ ("D" :> <<<<77, 1, 4>>>>)
  @@ ("ð" :> <<<<77, 2, 1>>>>)
  @@ ("Ð" :> <<<<77, 2, 5>>>>)
  @@ ("e" :> <<<<78, 1, 1>>>>)
  @@ ("E" :> <<<<78, 1, 4>>>>)
  @@ ("é" :> <<<<78, 1, 1>>, <<0, 3, 1>>>>)
  @@ ("É" :> <<<<78, 1, 4>>, <<0, 3, 1>>>>)
  @@ ("è" :> <<<<78, 1, 1>>, <<0, 4, 1>>>>)
  @@ ("È" :> <<<<78, 1, 4>>, <<0, 4, 1>>>>)
  @@ ("ê" :> <<<<78, 1, 1>>, <<0, 5, 1>>>>)
  @@ ("Ê" :> <<<<78, 1, 4>>, <<0, 5, 1>>>>)
  @@ ("ë" :> <<<<78, 1, 1>>, <<0, 7, 1>>>>)
  @@ ("Ë" :> <<<<78, 1, 4>>, <<0, 7, 1>>>>)
  @@ ("f" :> <<<<79, 1, 1>>>>)
  @@ ("F" :> <<<<79, 1, 4>>>>)
  @@ ("g" :> <<<<80, 1, 1>>>>)
  @@ ("G" :> <<<<80, 1, 4>>>>)
  @@ ("h" :> <<<<81, 1, 1>>>>)
  @@ ("H" :> <<<<81, 1, 4>>>>)
  @@ ("i" :> <<<<82, 1, 1>>>>)
  @@ ("I" :> <<<<82, 1, 4>>>>)
  @@ ("í" :> <<<<82, 1, 1>>, <<0, 3, 1>>>>)
  @@ ("Í" :> <<<<82, 1, 4>>, <<0, 3, 1>>>>)
  @@ ("ì" :> <<<<82, 1, 1>>, <<0, 4, 1>>>>)
  @@ ("Ì" :> <<<<82, 1, 4>>, <<0, 4, 1>>>>)
  @@ ("î" :> <<<<82, 1, 1>>, <<0, 5, 1>>>>)
  @@ ("Î" :> <<<<82, 1, 4>>, <<0, 5, 1>>>>)
  @@ ("ï" :> <<<<82, 1, 1>>, <<0, 7, 1>>>>)
  @@ ("Ï" :> <<<<82, 1, 4>>, <<0, 7, 1>>>>)
  @@ ("j" :> <<<<83, 1, 1>>>>)
  @@ ("J" :> <<<<83, 1, 4>>>>)
  @@ ("k" :> <<<<84, 1, 1>>>>)
  @@ ("K" :> <<<<84, 1, 4>>>>)
  @@ ("l" :> <<<<85, 1, 1>>>>)
  @@ ("L" :> <<<<85, 1, 4>>>>)
  @@ ("m" :> <<<<86, 1, 1>>>>)
  @@ ("M" :> <<<<86, 1, 4>>>>)
  @@ ("n" :> <<<<87, 1, 1>>>>)
  @@ ("N" :> <<<<87, 1, 4>>>>)
  @@ ("ñ" :> <<<<87, 1, 1>>, <<0, 8, 1>>>>)
  @@ ("Ñ" :> <<<<87, 1, 4>>, <<0, 8, 1>>>>)
  @@ ("o" :> <<<<88, 1, 1>>>>)
  @@ ("O" :> <<<<88, 1, 4>>>>)
  @@ ("º" :> <<<<88, 1, 9>>>>)
  @@ ("ó" :> <<<<88, 1, 1>>, <<0, 3, 1>>>>)
  @@ ("Ó" :> <<<<88, 1, 4>>, <<0, 3, 1>>>>)
  @@ ("ò" :> <<<<88, 1, 1>>, <<0, 4, 1>>>>)
  @@ ("Ò" :> <<<<88, 1, 4>>, <<0, 4, 1>>>>)
  @@ ("ô" :> <<<<88, 1, 1>>, <<0, 5, 1>>>>)
  @@ ("Ô" :> <<<<88, 1, 4>>, <<0, 5, 1>>>>)
  @@ ("ö" :> <<<<88, 1, 1>>, <<0, 7, 1>>>>)
  @@ ("Ö" :> <<<<88, 1, 4>>, <<0, 7, 1>>>>)
  @@ ("õ" :> <<<<88, 1, 1>>, <<0, 8, 1>>>>)
  @@ ("Õ" :> <<<<88, 1, 4>>, <<0, 8, 1>>>>)
  @@ ("ø" :> <<<<88, 1, 1>>, <<0, 9, 1>>>>)
  @@ ("Ø" :> <<<<88, 1, 4>>, <<0, 9, 1>>>>)
  @@ ("p" :> <<<<89, 1, 1>>>>)
  @@ ("P" :> <<<<89, 1, 4>>>>)
  @@ ("q" :> <<<<90, 1, 1>>>>)
  @@ ("Q" :> <<<<90, 1, 4>>>>)
  @@ ("r" :> <<<<91, 1, 1>>>>)
  @@ ("R" :> <<<<91, 1, 4>>>>)
  @@ ("s" :> <<<<92, 1, 1>>>>)
  @@ ("S" :> <<<<92, 1, 4>>>>)
  @@ ("ß" :> <<<<92, 2, 1>>, <<92, 1, 3>>>>)
  @@ ("t" :> <<<<93, 1, 1>>>>)
  @@ ("T" :> <<<<93, 1, 4>>>>)
  @@ ("u" :> <<<<94, 1, 1>>>>)
  @@ ("U" :> <<<<94, 1, 4>>>>)
  @@ ("ú" :> <<<<94, 1, 1>>, <<0, 3, 1>>>>)
  @@ ("Ú" :> <<<<94, 1, 4>>, <<0, 3, 1>>>>)
  @@ ("ù" :> <<<<94, 1, 1>>, <<0, 4, 1>>>>)
  @@ ("Ù" :> <<<<94, 1, 4>>, <<0, 4, 1>>>>)
  @@ ("û" :> <<<<94, 1, 1>>, <<0, 5, 1>>>>)
  @@ ("Û" :> <<<<94, 1, 4>>, <<0, 5, 1>>>>)
  @@ ("ü" :> <<<<94, 1, 1>>, <<0, 7, 1>>>>)
  @@ ("Ü" :> <<<<94, 1, 4>>, <<0, 7, 1>>>>)
  @@ ("v" :> <<<<95, 1, 1>>>>)
  @@ ("V" :> <<<<95, 1, 4>>>>)
  @@ ("w" :> <<<<96, 1, 1>>>>)
  @@ ("W" :> <<<<96, 1, 5>>>>)
  @@ ("x" :> <<<<97, 1, 1>>>>)
  @@ ("X" :> <<<<97, 1, 4>>>>)
  @@ ("y" :> <<<<98, 1, 1>>>>)
  @@ ("Y" :> <<<<98, 1, 4>>>>)
  @@ ("ý" :> <<<<98, 1, 1>>, <<0, 3, 1>>>>)
  @@ ("Ý" :> <<<<98, 1, 4>>, <<0, 3, 1>>>>)
  @@ ("ÿ" :> <<<<98, 1, 1>>, <<0, 7, 1>>>>)
  @@ ("z" :> <<<<99, 1, 1>>>>)
  @@ ("Z" :> <<<<99, 1, 4>>>>)
  @@ ("þ" :> <<<<100, 1, 1>>>>)
  @@ ("Þ" :> <<<<100, 1, 5>>>>)
  @@ ("µ" :> <<<<101, 1, 2>>>>)
  @@ [c \in Ignorable |-> <<<<0, 0, 0>>>>]

\* the collation elements of a text
RECURSIVE collationElements(_)
collationElements(s) ==
  IF s = <<>> THEN <<>>
  ELSE Collation[Head(s)] \o collationElements(Tail(s))

\* the weights of one level, ignored elements left out
weights(elements, level) ==
  LET given(w) == w # 0
  IN SelectSeq([i \in 1..Len(elements) |-> elements[i][level]], given)

\* lexicographic comparison of two sequences of numbers: -1, 0 or 1
RECURSIVE lexCompare(_, _)
lexCompare(a, b) ==
  IF a = <<>> /\ b = <<>> THEN 0
  ELSE IF a = <<>> THEN -1
  ELSE IF b = <<>> THEN 1
  ELSE IF Head(a) < Head(b) THEN -1
  ELSE IF Head(a) > Head(b) THEN 1
  ELSE lexCompare(Tail(a), Tail(b))

\* String.prototype.localeCompare on text: the primary weights decide
\* (letters, case and accents ignored), then the secondary weights
\* (accents), then the tertiary weights (case and variant forms)
localeCompare(a, b) ==
  LET ea == collationElements(a)
      eb == collationElements(b)
      primary == lexCompare(weights(ea, 1), weights(eb, 1))
      secondary == lexCompare(weights(ea, 2), weights(eb, 2))
  IN IF primary # 0 THEN primary
     ELSE IF secondary # 0 THEN secondary
     ELSE lexCompare(weights(ea, 3), weights(eb, 3))

\* String.prototype.localeCompare on two ISO timestamps of the same format
isoCompare(a, b) == IF a < b THEN -1 ELSE IF a > b THEN 1 ELSE 0

\* The text of an ISO timestamp in UTC, "YYYY-MM-DDTHH:MM:SS.mmmZ" or, as
\* z.string().datetime() also admits, "YYYY-MM-DDTHH:MM:SSZ": the second it
\* names (counted from the second of tick 0) and its milliseconds, Null when
\* the text has no fraction.
IsoText(sec, ms) == [sec |-> sec, ms |-> ms]

\* Date.prototype.toISOString of the instant at a tick: always with milliseconds
toISOString(tick) == IsoText(tick \div 1000, Some(tick % 1000))

\* The order of two such texts as strings, -1, 0 or 1: the texts agree up
\* to the seconds when these are equal, and then 'Z' stands against '.',
\* which comes before it; `<` on strings and localeCompare agree on this.
isoTextCompare(a, b) ==
  IF a.sec # b.sec THEN isoCompare(a.sec, b.sec)
  ELSE IF a.ms = Null /\ b.ms = Null THEN 0
  ELSE IF a.ms = Null THEN 1
  ELSE IF b.ms = Null THEN -1
  ELSE isoCompare(Get(a.ms), Get(b.ms))

\* the characters String.prototype.trim removes: tab, line feed, vertical
\* tab, form feed, carriage return, space, no-break space, byte order mark
WhiteSpace == {"\t", "\n", "", "\f", "\r", " ", " ", "﻿"}

\* String.prototype.trim: without the white space at both ends
RECURSIVE trimStart(_)
trimStart(s) == IF s # <<>> /\ Head(s) \in WhiteSpace THEN trimStart(Tail(s)) ELSE s

RECURSIVE trimEnd(_)
trimEnd(s) ==
  IF s # <<>> /\ s[Len(s)] \in WhiteSpace THEN trimEnd(SubSeq(s, 1, Len(s) - 1)) ELSE s

trim(s) == trimEnd(trimStart(s))

\* ------------------------------------------------------------- CreateTodoSchema
\* the limits of the schema
MaxTitleLength == 200
MaxDescriptionLength == 2000
MaxTagLength == 50
MaxTags == 10

\* CreateTodoSchema.safeParse(body).success for a body whose fields have the
\* JSON types the schema names: the checks run on the text as it was sent
createBodyValid(body) ==
  /\ Has(body, "title")
  /\ Len(body.title) >= 1
  /\ Len(body.title) <= MaxTitleLength
  /\ Has(body, "description") => Len(body.description) <= MaxDescriptionLength
  /\ Has(body, "priority") => body.priority \in TodoPriority
  /\ Has(body, "tags") =>
       /\ Len(body.tags) <= MaxTags
       /\ \A i \in 1..Len(body.tags) : Len(body.tags[i]) <= MaxTagLength

\* a parse that leaves an omitted priority unset
CreateTodoSchema_noDefault(body) ==
  [ f \in {"title", "priority", "tags"} \cup ({"description", "dueDate"} \cap DOMAIN body) |->
      CASE f = "title" -> trim(body.title)
        [] f = "description" -> trim(body.description)
        [] f = "priority" -> IF Has(body, "priority") THEN body.priority ELSE "undefined"
        [] f = "dueDate" -> body.dueDate
        [] f = "tags" -> IF Has(body, "tags")
                           THEN [i \in 1..Len(body.tags) |-> trim(body.tags[i])]
                           ELSE <<>> ]

\* CreateTodoSchema.safeParse(body).data for a valid body: texts trimmed,
\* priority 'medium' and tags [] when omitted, optional fields left out
CreateTodoSchema(body) ==
  [ f \in {"title", "priority", "tags"} \cup ({"description", "dueDate"} \cap DOMAIN body) |->
      CASE f = "title" -> trim(body.title)
        [] f = "description" -> trim(body.description)
        [] f = "priority" -> IF Has(body, "priority") THEN body.priority ELSE "medium"
        [] f = "dueDate" -> body.dueDate
        [] f = "tags" -> IF Has(body, "tags")
                           THEN [i \in 1..Len(body.tags) |-> trim(body.tags[i])]
                           ELSE <<>> ]

\* ------------------------------------------------------------- findAll
\* `if (query.f)` for a string field: supplied and not the empty string
Truthy(query, f) == Has(query, f) /\ query[f] # <<>>

\* `if (query.f)` for an enum field: supplied (no enum value is falsy)
Supplied(query, f) == Has(query, f)

matchesTag(todo, tag) ==
  LET searchTag == toLowerCase(tag) IN
  \E i \in 1..Len(todo.tags) : toLowerCase(todo.tags[i]) = searchTag

matchesSearch(todo, search) ==
  LET searchLower == toLowerCase(search) IN
  \/ includes(toLowerCase(todo.title), searchLower)
  \/ (todo.description # Null /\ includes(toLowerCase(Get(todo.description)), searchLower))

\* a filter that lets soft-deleted records through whatever the query says
filterTodos_noSoftDeleteFilter(ts, query) ==
  LET byStatus(todo) == Supplied(query, "status") => todo.status = query.status
      byPriority(todo) == Supplied(query, "priority") => todo.priority = query.priority
      byTag(todo) == Truthy(query, "tag") => matchesTag(todo, query.tag)
      bySearch(todo) == Truthy(query, "search") => matchesSearch(todo, query.search)
  IN SelectSeq(SelectSeq(SelectSeq(SelectSeq(ts, byStatus), byPriority), byTag), bySearch)

\* the records left after the soft-delete filter and the four optional filters
filterTodos(ts, query) ==
  LET visible(todo) == query.includeDeleted \/ todo.deletedAt = Null
      byStatus(todo) == Supplied(query, "status") => todo.status = query.status
      byPriority(todo) == Supplied(query, "priority") => todo.priority = query.priority
      byTag(todo) == Truthy(query, "tag") => matchesTag(todo, query.tag)
      bySearch(todo) == Truthy(query, "search") => matchesSearch(todo, query.search)
  IN SelectSeq(SelectSeq(SelectSeq(SelectSeq(SelectSeq(ts, visible), byStatus),
                                   byPriority), byTag), bySearch)

sortMultiplier(query) == IF query.sortOrder = "asc" THEN 1 ELSE -1

\* the comparison of two dueDate values
dueDateComparison(a, b) ==
  IF a.dueDate = Null /\ b.dueDate = Null THEN 0
  ELSE IF a.dueDate = Null THEN 1
  ELSE IF b.dueDate = Null THEN -1
  ELSE isoTextCompare(Get(a.dueDate), Get(b.dueDate))

\* the `switch (query.sortBy)` of the sort callback
comparison(a, b, query) ==
  CASE query.sortBy = "title" -> localeCompare(a.title, b.title)
    [] query.sortBy = "priority" -> PRIORITY_ORDER(a.priority) - PRIORITY_ORDER(b.priority)
    [] query.sortBy = "dueDate" -> dueDateComparison(a, b)
    [] query.sortBy = "updatedAt" -> isoCompare(a.updatedAt, b.updatedAt)
    [] OTHER -> isoCompare(a.createdAt, b.createdAt)

\* the sort callback
compareTodos(a, b, query) == comparison(a, b, query) * sortMultiplier(query)

\* one step of a stable sort: x goes behind every element that does not
\* compare greater than it
insertSorted(sorted, x, query) ==
  LET after == {i \in 1..Len(sorted) : compareTodos(sorted[i], x, query) > 0}
      pos == IF after = {} THEN Len(sorted) + 1
             ELSE CHOOSE i \in after : \A j \in after : i <= j
  IN SubSeq(sorted, 1, pos - 1) \o <<x>> \o SubSeq(sorted, pos, Len(sorted))

\* Array.prototype.sort with the callback (the sort is stable)
RECURSIVE sortTodos(_, _)
sortTodos(s, query) ==
  IF s = <<>> THEN <<>>
  ELSE insertSorted(sortTodos(SubSeq(s, 1, Len(s) - 1), query), s[Len(s)], query)

\* the filtered and sorted records, before pagination
sortedResults(ts, query) == sortTodos(filterTodos(ts, query), query)

\* a division that rounds down
ceilDiv_floor(a, b) == a \div b

\* Math.ceil(a / b) for a >= 0, b >= 1
ceilDiv(a, b) == (a + b - 1) \div b

\* a slice that takes the element at end too
slice_inclusiveEnd(s, start, end) ==
  SubSeq(s, start + 1, IF end + 1 < Len(s) THEN end + 1 ELSE Len(s))

\* Array.prototype.slice(start, end) for 0 <= start <= end
slice(s, start, end) ==
  SubSeq(s, start + 1, IF end < Len(s) THEN end ELSE Len(s))

\* findAll(query)
findAll(ts, query) ==
  LET results == sortedResults(ts, query)
      total == Len(results)
      totalPages == ceilDiv(total, query.limit)
      start == (query.page - 1) * query.limit
  IN [ data |-> slice(results, start, start + query.limit),
       pagination |-> [ page        |-> query.page,
                        limit       |-> query.limit,
                        total       |-> total,
                        totalPages  |-> totalPages,
                        hasNextPage |-> query.page < totalPages,
                        hasPrevPage |-> query.page > 1 ] ]

\* ------------------------------------------------------------- getStats
\* `todo.dueDate && todo.dueDate < now && ...`: `<` compares the two strings
isOverdue(todo, now) ==
  /\ todo.dueDate # Null
  /\ isoTextCompare(Get(todo.dueDate), toISOString(now)) < 0
  /\ todo.status # "completed"
  /\ todo.status # "cancelled"

\* getStats(): byStatus and byPriority have a key for each value that occurs
getStats(ts, now) ==
  LET isLive(t) == t.deletedAt = Null
      live == SelectSeq(ts, isLive)
      overdue(t) == isOverdue(t, now)
  IN [ total      |-> Len(live),
       byStatus   |-> [s \in {live[i].status : i \in 1..Len(live)} |->
                         Cardinality({i \in 1..Len(live) : live[i].status = s})],
       byPriority |-> [p \in {live[i].priority : i \in 1..Len(live)} |->
                         Cardinality({i \in 1..Len(live) : live[i].priority = p})],
       overdue    |-> Len(SelectSeq(live, overdue)) ]

\* ------------------------------------------------------------- TodoStore, methods
\* each method as a pair: the map it leaves and the value it returns

createStore(ts, input, id, now) == MapSet(ts, id, createTodo(input, id, now))
createResult(ts, input, id, now) == Some(createTodo(input, id, now))

\* the reads leave the map alone: findById reads one entry, findAll and
\* getStats filter and sort a copy made by Array.from(this.todos.values())
findByIdStore(ts, id, includeDeleted) == ts

\* a findAll that sorts the map's entries instead of a copy
findAllStore_sortInPlace(ts, query) == sortTodos(ts, query)

findAllStore(ts, query) == ts
getStatsStore(ts, now) == ts

updateStore(ts, id, input, now) ==
  LET todo == liveTodo(ts, id) IN
  IF todo = Undefined THEN ts
  ELSE MapSet(ts, id, updatedTodo(Get(todo), input, now))

updateResult(ts, id, input, now) ==
  LET todo == liveTodo(ts, id) IN
  IF todo = Undefined THEN Undefined
  ELSE Some(updatedTodo(Get(todo), input, now))

softDeleteStore(ts, id, now) ==
  LET todo == liveTodo(ts, id) IN
  IF todo = Undefined THEN ts
  ELSE MapSet(ts, id, deletedTodo(Get(todo), now))

softDeleteResult(ts, id, now) ==
  LET todo == liveTodo(ts, id) IN
  IF todo = Undefined THEN Undefined
  ELSE Some(deletedTodo(Get(todo), now))

\* a hard delete that goes through the soft-delete filter
hardDeleteStore_liveOnly(ts, id) ==
  IF liveTodo(ts, id) = Undefined THEN ts ELSE MapDelete(ts, id)

hardDeleteStore(ts, id) == MapDelete(ts, id)
hardDeleteResult(ts, id) == MapHas(ts, id)

restoreStore(ts, id, now) ==
  IF ~restorable(ts, id) THEN ts
  ELSE MapSet(ts, id, restoredTodo(Get(MapGet(ts, id)), now))

restoreResult(ts, id, now) ==
  IF ~restorable(ts, id) THEN Undefined
  ELSE Some(restoredTodo(Get(MapGet(ts, id)), now))

\* clear(): Map.clear
clearStore(ts) == <<>>

\* ------------------------------------------------------------- results
\* What a call returned, one field for each return type of the store's
\* methods; the fields a call does not return hold these values.
NoResult ==
  [ todo    |-> Undefined,    \* Todo | undefined
    removed |-> FALSE,        \* boolean
    page    |-> Undefined,    \* PaginatedResponse<Todo>
    stats   |-> Undefined ]   \* the object getStats() returns

TodoResult(todo) == [NoResult EXCEPT !.todo = todo]
RemovedResult(removed) == [NoResult EXCEPT !.removed = removed]
PageResult(page) == [NoResult EXCEPT !.page = Some(page)]
StatsResult(stats) == [NoResult EXCEPT !.stats = Some(stats)]

\* ------------------------------------------------------------- inputs
\* the values new Date() may return next: the clock does not go backwards
Nows == {clock} \cup (IF clock < MaxClock THEN {clock + 1} ELSE {})

\* the identifiers a caller may name: those of records, and of none
Ids == 1..MaxCreates

EmptyPatch == [f \in {} |-> 0]

\* due dates a client may send: the second of tick 0 written without a
\* fraction, and the instant of tick 0 written with its milliseconds
DueSecond == IsoText(0, Null)
DueMillis == IsoText(0, Some(0))

\* create inputs as CreateTodoSchema leaves them (priority and tags always set)
PlainInput == [title |-> <<"a">>, priority |-> "medium", tags |-> <<>>]
FullInput ==
  [title |-> <<"B">>, description |-> <<"x">>, priority |-> "high",
   dueDate |-> DueSecond, tags |-> << <<"X">> >>]
CreateInputs == {PlainInput, FullInput}

\* bodies of POST /todos: the title alone (with white space to trim), every
\* field, and a body without a title
TitleBody == [title |-> <<" ", "y">>]
FullBody ==
  [title |-> <<"B">>, description |-> <<"x">>, priority |-> "high",
   dueDate |-> DueSecond, tags |-> << <<"X", " ">> >>]
NoTitleBody == [priority |-> "low"]
CreateBodies == {TitleBody, FullBody, NoTitleBody}

\* update inputs as UpdateTodoSchema leaves them
StatusPatches == {[status |-> s] : s \in TodoStatus}

\* the life-cycle workload: nothing, completed, or back to pending
Patches == {EmptyPatch, [status |-> "completed"], [status |-> "pending"]}

\* the field workload: each field alone with each kind of value, nothing, and
\* all fields at once
FullPatch ==
  [title |-> <<"y">>, description |-> Some(<<"y">>), priority |-> "low",
   status |-> "in_progress", dueDate |-> Some(DueMillis), tags |-> << <<"y">> >>]
FieldPatches ==
  {EmptyPatch, FullPatch} \cup StatusPatches \cup
  { [title |-> <<"y">>],
    [description |-> Null], [description |-> Some(<<"y">>)],
    [priority |-> "low"],
    [dueDate |-> Null], [dueDate |-> Some(DueMillis)],
    [tags |-> << <<"y">> >>] }

\* list queries as ListTodosQuerySchema leaves them
DefaultQuery(includeDeleted) ==
  [sortBy |-> "createdAt", sortOrder |-> "desc", page |-> 1, limit |-> 20,
   includeDeleted |-> includeDeleted]
DueDateQuery(sortOrder) ==
  [sortBy |-> "dueDate", sortOrder |-> sortOrder, page |-> 1, limit |-> 20,
   includeDeleted |-> FALSE]
Queries ==
  {DefaultQuery(b) : b \in BOOLEAN} \cup {DueDateQuery(o) : o \in {"asc", "desc"}}

\* a list query: the filters supplied, and the fields the schema always sets
ListQuery(filters, sortBy, sortOrder, page, limit, includeDeleted) ==
  filters @@ [sortBy |-> sortBy, sortOrder |-> sortOrder, page |-> page,
              limit |-> limit, includeDeleted |-> includeDeleted]

\* the filter workload: each filter alone, matching in another case, the
\* empty tag and the empty search, and filters together
Filters ==
  { EmptyPatch,
    [status |-> "pending"], [status |-> "completed"],
    [priority |-> "high"],
    [tag |-> <<"x">>], [tag |-> <<>>],
    [search |-> <<"b">>], [search |-> <<"X">>], [search |-> <<>>],
    [status |-> "pending", priority |-> "high"],
    [priority |-> "medium", tag |-> <<"x">>],
    [status |-> "pending", priority |-> "high", tag |-> <<"X">>, search |-> <<"x">>] }
FilterQueries ==
  {ListQuery(f, "createdAt", "desc", 1, 20, b) : f \in Filters, b \in BOOLEAN}

\* the sort workload
SortQueries ==
  {ListQuery(EmptyPatch, k, o, 1, 20, FALSE) :
     k \in {"priority", "title"}, o \in {"asc", "desc"}}

\* the pagination workload: pages up to one past the last, small limits
Pages == 1..(MaxCreates + 1)
Limits == 1..MaxCreates
PageQueries ==
  {ListQuery(EmptyPatch, "createdAt", "asc", p, l, FALSE) : p \in Pages, l \in Limits}

ListQueries == FilterQueries \cup SortQueries \cup PageQueries

\* ------------------------------------------------------------- the tags arrays
\* `tags: input.tags` stores the array the input carries, not a copy of it,
\* and `{...todo}` copies the reference to it.

\* the record is taken out of the block it is in
dropArray(arrays, id) == {block \ {id} : block \in arrays} \ {{}}

\* the record holds an array that no other record holds
ownArray(arrays, id) == dropArray(arrays, id) \cup {{id}}

\* the record holds the array that record `from` holds
sameArray(arrays, id, from) ==
  IF id = from THEN arrays
  ELSE {IF from \in block THEN block \cup {id} ELSE block : block \in dropArray(arrays, id)}

\* the records that hold the array record id holds
sharers(arrays, id) == UNION {block \in arrays : id \in block}

\* create: the new record holds the array of the input
createArrays(arrays, id) == ownArray(arrays, id)

\* update: a live record takes the array of the input when the input has one
updateArrays(arrays, ts, id, input) ==
  IF liveTodo(ts, id) # Undefined /\ Has(input, "tags")
    THEN ownArray(arrays, id)
    ELSE arrays

\* hardDelete: the record leaves the Map
hardDeleteArrays(arrays, id) == dropArray(arrays, id)

\* clear: no record is left
clearArrays(arrays) == {}

\* ------------------------------------------------------------- actions
Init ==
  /\ todos = <<>>
  /\ clock = 0
  /\ nextId = 1
  /\ call = [op |-> "new"]
  /\ ret = NoResult
  /\ issued = {}
  /\ requests = {}
  /\ tagArrays = {}

\* create() while fewer than `most` records have been created
CreateUpTo(input, most) ==
  /\ nextId <= most
  /\ \E now \in Nows :
       /\ todos' = createStore(todos, input, nextId, now)
       /\ ret' = TodoResult(createResult(todos, input, nextId, now))
       /\ clock' = now
  /\ nextId' = nextId + 1
  /\ issued' = issued \cup {Get(ret'.todo).id}
  /\ call' = [op |-> "create", input |-> input]
  /\ tagArrays' = createArrays(tagArrays, nextId)
  /\ UNCHANGED requests

Create(input) == CreateUpTo(input, MaxCreates)

FindById(id, includeDeleted) ==
  /\ todos' = findByIdStore(todos, id, includeDeleted)
  /\ ret' = TodoResult(findById(todos, id, includeDeleted))
  /\ call' = [op |-> "findById", id |-> id, includeDeleted |-> includeDeleted]
  /\ UNCHANGED <<clock, nextId, issued, requests, tagArrays>>

FindAll(query) ==
  /\ todos' = findAllStore(todos, query)
  /\ ret' = PageResult(findAll(todos, query))
  /\ call' = [op |-> "findAll", query |-> query]
  /\ UNCHANGED <<clock, nextId, issued, requests, tagArrays>>

Update(id, input) ==
  /\ \E now \in Nows :
       /\ todos' = updateStore(todos, id, input, now)
       /\ ret' = TodoResult(updateResult(todos, id, input, now))
       /\ clock' = IF liveTodo(todos, id) = Undefined THEN clock ELSE now
  /\ call' = [op |-> "update", id |-> id, input |-> input]
  /\ tagArrays' = updateArrays(tagArrays, todos, id, input)
  /\ UNCHANGED <<nextId, issued, requests>>

SoftDelete(id) ==
  /\ \E now \in Nows :
       /\ todos' = softDeleteStore(todos, id, now)
       /\ ret' = TodoResult(softDeleteResult(todos, id, now))
       /\ clock' = IF liveTodo(todos, id) = Undefined THEN clock ELSE now
  /\ call' = [op |-> "softDelete", id |-> id]
  /\ UNCHANGED <<nextId, issued, requests, tagArrays>>

HardDelete(id) ==
  /\ todos' = hardDeleteStore(todos, id)
  /\ ret' = RemovedResult(hardDeleteResult(todos, id))
  /\ call' = [op |-> "hardDelete", id |-> id]
  /\ tagArrays' = hardDeleteArrays(tagArrays, id)
  /\ UNCHANGED <<clock, nextId, issued, requests>>

Restore(id) ==
  /\ \E now \in Nows :
       /\ todos' = restoreStore(todos, id, now)
       /\ ret' = TodoResult(restoreResult(todos, id, now))
       /\ clock' = IF restorable(todos, id) THEN now ELSE clock
  /\ call' = [op |-> "restore", id |-> id]
  /\ UNCHANGED <<nextId, issued, requests, tagArrays>>

GetStats ==
  /\ \E now \in Nows :
       /\ todos' = getStatsStore(todos, now)
       /\ ret' = StatsResult(getStats(todos, now))
       /\ clock' = now
  /\ call' = [op |-> "getStats"]
  /\ UNCHANGED <<nextId, issued, requests, tagArrays>>

\* clear(): the Map is emptied
Clear ==
  /\ todos' = clearStore(todos)
  /\ ret' = NoResult
  /\ call' = [op |-> "clear"]
  /\ tagArrays' = clearArrays(tagArrays)
  /\ UNCHANGED <<clock, nextId, issued, requests>>

\* create() on an empty store: the workload that holds one record at a time
CreateAlone(input) ==
  /\ todos = <<>>
  /\ Create(input)

\* ------------------------------------------------------------- the HTTP layer
\* The response is modelled by its status and its error code ("none" on
\* success); the envelope's meta (requestId, timestamp) is left out. A
\* handler's record in `call` also lists, under `store`, the store methods
\* the handler called.

\* the errors: a ZodError, an AppError with its statusCode and code, and the
\* subclasses of AppError with the values their constructors pass on
ZodError == [name |-> "ZodError"]
AppError(statusCode, code) == [name |-> "AppError", statusCode |-> statusCode, code |-> code]
ValidationError == AppError(400, "VALIDATION_ERROR")
NotFoundError == AppError(404, "NOT_FOUND")
ConflictError == AppError(409, "CONFLICT")
RateLimitError == AppError(429, "RATE_LIMIT_EXCEEDED")
InternalError == AppError(500, "INTERNAL_ERROR")

\* an error handler that answers 500 whatever it gets
errorHandler_alwaysInternal(err) == [status |-> 500, code |-> "INTERNAL_ERROR"]

\* errorHandler: 400 for a ZodError, the error's own statusCode and code for
\* an AppError, 500 for anything else
errorHandler(err) ==
  IF err.name = "ZodError" THEN [status |-> 400, code |-> "VALIDATION_ERROR"]
  ELSE IF err.name = "AppError" THEN [status |-> err.statusCode, code |-> err.code]
  ELSE [status |-> 500, code |-> "INTERNAL_ERROR"]

\* res.status(status).json({ success: true, ... }) and res.status(204).send()
success(status) == [status |-> status, code |-> "none"]

\* a path parameter that is not a UUID (identifiers 1, 2, ... stand for UUIDs)
BadId == 0

\* TodoIdSchema.safeParse(params).success
paramsValid(id) == id # BadId

\* UpdateTodoSchema.safeParse(body).success for a body whose fields have the
\* JSON types the schema names: the checks run on the text as it was sent
updateBodyValid(body) ==
  /\ Has(body, "title") =>
       /\ Len(body.title) >= 1
       /\ Len(body.title) <= MaxTitleLength
  /\ (Has(body, "description") /\ body.description # Null) =>
       Len(Get(body.description)) <= MaxDescriptionLength
  /\ Has(body, "priority") => body.priority \in TodoPriority
  /\ Has(body, "status") => body.status \in TodoStatus
  /\ Has(body, "tags") =>
       /\ Len(body.tags) <= MaxTags
       /\ \A i \in 1..Len(body.tags) : Len(body.tags[i]) <= MaxTagLength

\* UpdateTodoSchema.safeParse(body).data for a valid body: texts trimmed,
\* null kept, omitted fields left out
UpdateTodoSchema(body) ==
  [ f \in DOMAIN body \cap {"title", "description", "priority", "status", "dueDate", "tags"} |->
      CASE f = "title" -> trim(body.title)
        [] f = "description" ->
             IF body.description = Null THEN Null ELSE Some(trim(Get(body.description)))
        [] f = "tags" -> [i \in 1..Len(body.tags) |-> trim(body.tags[i])]
        [] OTHER -> body[f] ]

MaxSearchLength == 100
MaxLimit == 100

\* Number(text) for a text of decimal digits; the empty text gives 0
digitValue(c) ==
  CASE c = "0" -> 0 [] c = "1" -> 1 [] c = "2" -> 2 [] c = "3" -> 3 [] c = "4" -> 4
    [] c = "5" -> 5 [] c = "6" -> 6 [] c = "7" -> 7 [] c = "8" -> 8 [] c = "9" -> 9
RECURSIVE coerceNumber(_)
coerceNumber(text) ==
  IF text = <<>> THEN 0
  ELSE coerceNumber(SubSeq(text, 1, Len(text) - 1)) * 10 + digitValue(text[Len(text)])

\* ListTodosQuerySchema.safeParse(query).success for a query string whose
\* page and limit, when given, are texts of digits
listQueryValid(raw) ==
  /\ Has(raw, "status") => raw.status \in TodoStatus
  /\ Has(raw, "priority") => raw.priority \in TodoPriority
  /\ Has(raw, "search") => Len(raw.search) <= MaxSearchLength
  /\ Has(raw, "tag") => Len(raw.tag) <= MaxTagLength
  /\ Has(raw, "sortBy") => raw.sortBy \in {"createdAt", "updatedAt", "dueDate", "priority", "title"}
  /\ Has(raw, "sortOrder") => raw.sortOrder \in {"asc", "desc"}
  /\ Has(raw, "page") => coerceNumber(raw.page) > 0
  /\ Has(raw, "limit") =>
       /\ coerceNumber(raw.limit) >= 1
       /\ coerceNumber(raw.limit) <= MaxLimit

\* ListTodosQuerySchema.safeParse(query).data for a valid query string:
\* defaults filled in, page and limit as numbers, includeDeleted as a boolean
ListTodosQuerySchema(raw) ==
  [ f \in (DOMAIN raw \cap {"status", "priority", "search", "tag"})
          \cup {"sortBy", "sortOrder", "page", "limit", "includeDeleted"} |->
      CASE f = "sortBy" -> IF Has(raw, "sortBy") THEN raw.sortBy ELSE "createdAt"
        [] f = "sortOrder" -> IF Has(raw, "sortOrder") THEN raw.sortOrder ELSE "desc"
        [] f = "page" -> IF Has(raw, "page") THEN coerceNumber(raw.page) ELSE 1
        [] f = "limit" -> IF Has(raw, "limit") THEN coerceNumber(raw.limit) ELSE 20
        [] f = "includeDeleted" ->
             Has(raw, "includeDeleted") /\ raw.includeDeleted = <<"t", "r", "u", "e">>
        [] OTHER -> raw[f] ]

\* a request stopped by the validate middleware: the ZodError goes to the
\* error handler, the route handler is not called
Rejected(request) ==
  /\ ret' = NoResult
  /\ call' = request @@ errorHandler(ZodError) @@ [store |-> <<>>]
  /\ UNCHANGED <<todos, clock, nextId, issued, tagArrays>>

\* POST /todos: validateBody(CreateTodoSchema), then the handler; a body that
\* fails validation goes to the error handler and the store is not called
PostTodo(body) ==
  /\ IF createBodyValid(body)
       THEN /\ nextId <= MaxCreates
            /\ \E now \in Nows :
                 /\ todos' = createStore(todos, CreateTodoSchema(body), nextId, now)
                 /\ ret' = TodoResult(createResult(todos, CreateTodoSchema(body), nextId, now))
                 /\ clock' = now
            /\ nextId' = nextId + 1
            /\ tagArrays' = createArrays(tagArrays, nextId)
            /\ issued' = issued \cup {Get(ret'.todo).id}
            /\ call' = [op |-> "POST /todos", body |-> body] @@ success(201)
                         @@ [store |-> <<"create">>]
       ELSE Rejected([op |-> "POST /todos", body |-> body])
  /\ UNCHANGED requests

\* GET /todos: validateQuery(ListTodosQuerySchema), then findAll
ListTodos(raw) ==
  /\ IF listQueryValid(raw)
       THEN /\ todos' = findAllStore(todos, ListTodosQuerySchema(raw))
            /\ ret' = PageResult(findAll(todos, ListTodosQuerySchema(raw)))
            /\ call' = [op |-> "GET /todos", query |-> raw] @@ success(200)
                         @@ [store |-> <<"findAll">>]
            /\ UNCHANGED <<clock, nextId, issued, tagArrays>>
       ELSE Rejected([op |-> "GET /todos", query |-> raw])
  /\ UNCHANGED requests

\* GET /todos/:id, with ?includeDeleted=true or without
GetTodo(id, includeDeleted) ==
  /\ IF paramsValid(id)
       THEN /\ todos' = findByIdStore(todos, id, includeDeleted)
            /\ ret' = TodoResult(findById(todos, id, includeDeleted))
            /\ call' = [op |-> "GET /todos/:id", id |-> id, includeDeleted |-> includeDeleted]
                         @@ (IF findById(todos, id, includeDeleted) = Undefined
                               THEN errorHandler(NotFoundError) ELSE success(200))
                         @@ [store |-> <<"findById">>]
            /\ UNCHANGED <<clock, nextId, issued, tagArrays>>
       ELSE Rejected([op |-> "GET /todos/:id", id |-> id, includeDeleted |-> includeDeleted])
  /\ UNCHANGED requests

\* the PATCH /todos/:id handler run on store ts
PatchHandler(ts, id, body) ==
  IF paramsValid(id) /\ updateBodyValid(body)
    THEN /\ \E now \in Nows :
              /\ todos' = updateStore(ts, id, UpdateTodoSchema(body), now)
              /\ ret' = TodoResult(updateResult(ts, id, UpdateTodoSchema(body), now))
              /\ clock' = IF liveTodo(ts, id) = Undefined THEN clock ELSE now
         /\ call' = [op |-> "PATCH /todos/:id", id |-> id, body |-> body]
                      @@ (IF liveTodo(ts, id) = Undefined
                            THEN errorHandler(NotFoundError) ELSE success(200))
                      @@ [store |-> <<"update">>]
         /\ tagArrays' = updateArrays(tagArrays, ts, id, UpdateTodoSchema(body))
         /\ UNCHANGED <<nextId, issued>>
    ELSE Rejected([op |-> "PATCH /todos/:id", id |-> id, body |-> body])

\* PATCH /todos/:id
PatchTodo(id, body) ==
  /\ PatchHandler(todos, id, body)
  /\ UNCHANGED requests

\* the record DELETE /todos/:id?permanent=true looks for: live or not
permanentTarget_liveOnly(ts, id) == findById(ts, id, FALSE)
permanentTarget(ts, id) == findById(ts, id, TRUE)

\* DELETE /todos/:id, with ?permanent=true or without
DeleteTodo(id, permanent) ==
  /\ IF ~paramsValid(id)
       THEN Rejected([op |-> "DELETE /todos/:id", id |-> id, permanent |-> permanent])
     ELSE IF permanent
       THEN IF permanentTarget(todos, id) = Undefined
              THEN /\ ret' = NoResult
                   /\ call' = [op |-> "DELETE /todos/:id", id |-> id, permanent |-> TRUE]
                                @@ errorHandler(NotFoundError)
                                @@ [store |-> <<"findById">>]
                   /\ UNCHANGED <<todos, clock, nextId, issued, tagArrays>>
              ELSE /\ todos' = hardDeleteStore(todos, id)
                   /\ ret' = NoResult
                   /\ call' = [op |-> "DELETE /todos/:id", id |-> id, permanent |-> TRUE]
                                @@ success(204)
                                @@ [store |-> <<"findById", "hardDelete">>]
                   /\ tagArrays' = hardDeleteArrays(tagArrays, id)
                   /\ UNCHANGED <<clock, nextId, issued>>
     ELSE /\ \E now \in Nows :
               /\ todos' = softDeleteStore(todos, id, now)
               /\ ret' = TodoResult(softDeleteResult(todos, id, now))
               /\ clock' = IF liveTodo(todos, id) = Undefined THEN clock ELSE now
          /\ call' = [op |-> "DELETE /todos/:id", id |-> id, permanent |-> FALSE]
                       @@ (IF liveTodo(todos, id) = Undefined
                             THEN errorHandler(NotFoundError) ELSE success(200))
                       @@ [store |-> <<"softDelete">>]
          /\ UNCHANGED <<nextId, issued, tagArrays>>
  /\ UNCHANGED requests

\* POST /todos/:id/restore
RestoreTodo(id) ==
  /\ IF paramsValid(id)
       THEN /\ \E now \in Nows :
                 /\ todos' = restoreStore(todos, id, now)
                 /\ ret' = TodoResult(restoreResult(todos, id, now))
                 /\ clock' = IF restorable(todos, id) THEN now ELSE clock
            /\ call' = [op |-> "POST /todos/:id/restore", id |-> id]
                         @@ (IF restorable(todos, id)
                               THEN success(200) ELSE errorHandler(NotFoundError))
                         @@ [store |-> <<"restore">>]
            /\ UNCHANGED <<nextId, issued, tagArrays>>
       ELSE Rejected([op |-> "POST /todos/:id/restore", id |-> id])
  /\ UNCHANGED requests

\* the store a handler works on when it runs: the store as it is then
handlerStore_atArrival(request, ts) == request.seen
handlerStore(request, ts) == ts

\* the most requests the server is sent
MaxInFlight == 2

\* a PATCH request arrives: the middleware before the router (rate limit,
\* logging, reading the body) runs while other requests are served, so the
\* request waits for its handler; `seen` keeps the store as it was on arrival
Receive(id, body) ==
  /\ Cardinality(requests) < MaxInFlight
  /\ \A r \in requests : ~(r.id = id /\ r.body = body)
  /\ requests' = requests \cup {[id |-> id, body |-> body, seen |-> todos, status |-> 0]}
  /\ ret' = NoResult
  /\ call' = [op |-> "receive", id |-> id, body |-> body]
  /\ UNCHANGED <<todos, clock, nextId, issued, tagArrays>>

\* the handler of a waiting request runs, from validation to the response,
\* without another handler running in between
Dispatch(request) ==
  /\ request \in requests
  /\ request.status = 0
  /\ PatchHandler(handlerStore(request, todos), request.id, request.body)
  /\ requests' = (requests \ {request}) \cup {[request EXCEPT !.status = call'.status]}

\* The life cycle of up to MaxCreates records under the life-cycle workload.
Next ==
  \/ Create(PlainInput)
  \/ \E id \in Ids, input \in Patches : Update(id, input)
  \/ \E id \in Ids : SoftDelete(id)
  \/ \E id \in Ids : HardDelete(id)
  \/ \E id \in Ids : Restore(id)
  \/ Clear

Spec == Init /\ [][Next]_vars

\* the identifiers of the records in the Map, live or soft-deleted
StoredIds == {todos[i].id : i \in 1..Len(todos)}

\* One record at a time under the field workload: updates name a stored record.
NextFields ==
  \/ CreateAlone(PlainInput)
  \/ \E id \in StoredIds, input \in FieldPatches : Update(id, input)
  \/ \E id \in Ids : SoftDelete(id)
  \/ \E id \in Ids : HardDelete(id)
  \/ \E id \in Ids : Restore(id)

SpecFields == Init /\ [][NextFields]_vars

\* the creation workload: a change of priority and status
CreatePatches == {[priority |-> "urgent", status |-> "in_progress"]}

\* Creation by the store's method and by the route, updates and removal.
NextCreate ==
  \/ \E input \in CreateInputs : Create(input)
  \/ \E body \in CreateBodies : PostTodo(body)
  \/ \E id \in Ids, input \in CreatePatches : Update(id, input)
  \/ \E id \in Ids : HardDelete(id)

SpecCreate == Init /\ [][NextCreate]_vars

\* The reads over stores of live, completed and soft-deleted records.
NextRead ==
  \/ \E input \in CreateInputs : Create(input)
  \/ \E id \in Ids : Update(id, [status |-> "completed"])
  \/ \E id \in Ids : SoftDelete(id)
  \/ \E id \in Ids, b \in BOOLEAN : FindById(id, b)
  \/ \E query \in ListQueries : FindAll(query)
  \/ GetStats

SpecRead == Init /\ [][NextRead]_vars

\* The sorts and the pages of findAll, next to the other reads.
NextList ==
  \/ \E input \in CreateInputs : Create(input)
  \/ \E id \in Ids : SoftDelete(id)
  \/ \E id \in Ids, b \in BOOLEAN : FindById(id, b)
  \/ \E query \in SortQueries \cup PageQueries : FindAll(query)
  \/ GetStats

SpecList == Init /\ [][NextList]_vars

\* the priority workload: records of every priority, created in any order,
\* enough of them for one list to hold all four priorities
MaxPriorityCreates == 4
PriorityInputs ==
  {[title |-> <<"a">>, priority |-> p, tags |-> <<>>] :
     p \in {"low", "medium", "high", "urgent"}}
PriorityQueries ==
  {ListQuery(EmptyPatch, "priority", o, 1, 20, FALSE) : o \in {"asc", "desc"}}

\* Records of the four priorities are created and listed by priority.
NextPriority ==
  \/ \E input \in PriorityInputs : CreateUpTo(input, MaxPriorityCreates)
  \/ \E query \in PriorityQueries : FindAll(query)

SpecPriority == Init /\ [][NextPriority]_vars

\* the tie workload: todos with the same title and priority, created in the
\* same tick or not, listed with the soft-deleted ones in both directions
TieQueries ==
  {ListQuery(EmptyPatch, k, o, 1, 20, TRUE) :
     k \in {"priority", "createdAt"}, o \in {"asc", "desc"}}

\* listing equal todos while they are updated, soft-deleted and restored
NextTies ==
  \/ Create(PlainInput)
  \/ \E id \in Ids : Update(id, EmptyPatch)
  \/ \E id \in Ids : SoftDelete(id)
  \/ \E id \in Ids : Restore(id)
  \/ \E query \in TieQueries : FindAll(query)

SpecTies == Init /\ [][NextTies]_vars

\* Writes and reads together.
NextQuery ==
  \/ \E input \in CreateInputs : Create(input)
  \/ \E id \in Ids, input \in Patches : Update(id, input)
  \/ \E id \in Ids : SoftDelete(id)
  \/ \E id \in Ids : HardDelete(id)
  \/ \E id \in Ids : Restore(id)
  \/ \E id \in Ids, b \in BOOLEAN : FindById(id, b)
  \/ \E query \in Queries : FindAll(query)
  \/ GetStats

SpecQuery == Init /\ [][NextQuery]_vars

\* ------------------------------------------------------------- the caller's references
\* create, findById, update, softDelete and restore return the very object
\* that the Map holds, and findAll returns an array of those objects; tags is
\* the array the input object carried.  Every object in the Map was returned
\* by the call that put it there, so a caller that keeps what it is handed
\* holds a reference to each stored object, whatever calls came since:
heldIds == {todos[i].id : i \in 1..Len(todos)}

\* the caller assigns a field of a record it was handed: `todo.title = ...`
CallerAssignTitle(id, title) ==
  /\ id \in heldIds
  /\ LET todo == [Get(MapGet(todos, id)) EXCEPT !.title = title] IN
       /\ todos' = MapSet(todos, id, todo)
       /\ ret' = TodoResult(Some(todo))
  /\ call' = [op |-> "mutate", id |-> id, field |-> "title"]
  /\ UNCHANGED <<clock, nextId, issued, requests, tagArrays>>

\* Array.prototype.push on one tags array: every record that holds the array
\* shows the new tag
pushTag(ts, ids, tag) ==
  [i \in 1..Len(ts) |->
     IF ts[i].id \in ids THEN [ts[i] EXCEPT !.tags = Append(@, tag)] ELSE ts[i]]

\* the caller pushes onto the tags array of a record it was handed, or of the
\* input it passed: `todo.tags.push(...)` (a tag that is not there yet)
CallerPushTag(id, tag) ==
  /\ id \in heldIds
  /\ \A i \in 1..Len(Get(MapGet(todos, id)).tags) : Get(MapGet(todos, id)).tags[i] # tag
  /\ todos' = pushTag(todos, sharers(tagArrays, id), tag)
  /\ ret' = TodoResult(MapGet(todos', id))
  /\ call' = [op |-> "mutate", id |-> id, field |-> "tags"]
  /\ UNCHANGED <<clock, nextId, issued, requests, tagArrays>>

\* create() with an input whose tags array a stored record holds: the caller
\* passes the same input object again, or `{..., tags: todo.tags}`
CreateShared(input, from) ==
  /\ from \in heldIds
  /\ nextId <= MaxCreates
  /\ LET shared == [input EXCEPT !.tags = Get(MapGet(todos, from)).tags] IN
       /\ \E now \in Nows :
            /\ todos' = createStore(todos, shared, nextId, now)
            /\ ret' = TodoResult(createResult(todos, shared, nextId, now))
            /\ clock' = now
       /\ call' = [op |-> "create", input |-> shared]
  /\ nextId' = nextId + 1
  /\ issued' = issued \cup {Get(ret'.todo).id}
  /\ tagArrays' = sameArray(tagArrays, nextId, from)
  /\ UNCHANGED requests

\* update() with the tags array a stored record holds: `{tags: todo.tags}`
UpdateShared(id, from) ==
  /\ from \in heldIds
  /\ LET input == [tags |-> Get(MapGet(todos, from)).tags] IN
       /\ \E now \in Nows :
            /\ todos' = updateStore(todos, id, input, now)
            /\ ret' = TodoResult(updateResult(todos, id, input, now))
            /\ clock' = IF liveTodo(todos, id) = Undefined THEN clock ELSE now
       /\ call' = [op |-> "update", id |-> id, input |-> input]
  /\ tagArrays' = IF liveTodo(todos, id) = Undefined
                    THEN tagArrays
                    ELSE sameArray(tagArrays, id, from)
  /\ UNCHANGED <<nextId, issued, requests>>

\* PATCH bodies that set different fields
TitlePatch == [title |-> <<"z", " ">>]
PriorityPatch == [priority |-> "low"]

\* The routes that answer 404, each request handled as it arrives.
NextHttp ==
  \/ PostTodo(TitleBody)
  \/ \E id \in Ids, b \in BOOLEAN : GetTodo(id, b)
  \/ \E id \in Ids : PatchTodo(id, PriorityPatch)
  \/ \E id \in Ids, b \in BOOLEAN : DeleteTodo(id, b)
  \/ \E id \in Ids : RestoreTodo(id)

SpecHttp == Init /\ [][NextHttp]_vars

\* bodies, queries and parameters that pass validation and that fail it
HttpIds == Ids \cup {BadId}
HttpCreateBodies == {TitleBody, NoTitleBody}
EmptyTitlePatch == [title |-> <<>>]
PatchBodies == {TitlePatch, EmptyTitlePatch}
RawQueries ==
  { EmptyPatch,
    [page |-> <<"2">>, limit |-> <<"1">>],
    [limit |-> <<"0">>],
    [includeDeleted |-> <<"t", "r", "u", "e">>] }

\* Every validated route, with requests that pass and requests that fail.
NextValidate ==
  \/ \E body \in HttpCreateBodies : PostTodo(body)
  \/ \E raw \in RawQueries : ListTodos(raw)
  \/ \E id \in HttpIds : GetTodo(id, FALSE)
  \/ \E id \in HttpIds, body \in PatchBodies : PatchTodo(id, body)
  \/ \E id \in HttpIds : DeleteTodo(id, TRUE)
  \/ \E id \in HttpIds : RestoreTodo(id)

SpecValidate == Init /\ [][NextValidate]_vars

ConcurrentBodies == {TitlePatch, PriorityPatch}

\* Todos are posted while PATCH requests arrive and wait for their handlers.
NextConcurrent ==
  \/ PostTodo(TitleBody)
  \/ \E id \in Ids, body \in ConcurrentBodies : Receive(id, body)
  \/ \E request \in requests : Dispatch(request)

SpecConcurrent == Init /\ [][NextConcurrent]_vars

\* The life cycle with the reads, and a caller that writes to what it was handed.
NextAlias ==
  \/ Create(PlainInput)
  \/ \E id \in Ids, input \in Patches : Update(id, input)
  \/ \E id \in Ids : SoftDelete(id)
  \/ \E id \in Ids : HardDelete(id)
  \/ \E id \in Ids : Restore(id)
  \/ \E id \in Ids, b \in BOOLEAN : FindById(id, b)
  \/ \E b \in BOOLEAN : FindAll(DefaultQuery(b))
  \/ \E id \in Ids : CallerAssignTitle(id, <<"y">>)
  \/ \E id \in Ids : CallerPushTag(id, <<"y">>)
  \/ \E from \in Ids : CreateShared(PlainInput, from)
  \/ \E id \in Ids, from \in Ids : UpdateShared(id, from)

SpecAlias == Init /\ [][NextAlias]_vars

\* ------------------------------------------------------------- claims
\* the position of a record with this id in a list of records, if any
InData(data, id) == \E i \in 1..Len(data) : data[i].id = id
HasRecord(data, todo) == \E i \in 1..Len(data) : data[i] = todo

\* C1: after a successful softDelete(id) no findAll with includeDeleted=false
\* holds the record, findAll with includeDeleted=true and no other filter
\* holds it, findById(id, true) returns it and findById(id) returns nothing;
\* this stays so for every record while it is soft-deleted; after a successful
\* restore(id) findById(id) and findAll with includeDeleted=false return it.
C1_SoftDeleteVisibility ==
  /\ (call.op = "softDelete" /\ ret.todo # Undefined) =>
       /\ MapGet(todos, call.id) = ret.todo
       /\ Get(ret.todo).deletedAt # Null
  /\ \A i \in 1..Len(todos) :
       todos[i].deletedAt # Null =>
         /\ \A q \in Queries :
              ~q.includeDeleted => ~InData(findAll(todos, q).data, todos[i].id)
         /\ HasRecord(findAll(todos, DefaultQuery(TRUE)).data, todos[i])
         /\ findById(todos, todos[i].id, TRUE) = Some(todos[i])
         /\ findById(todos, todos[i].id, FALSE) = Undefined
  /\ (call.op = "restore" /\ ret.todo # Undefined) =>
       /\ findById(todos, call.id, FALSE) = ret.todo
       /\ \A q \in Queries :
            ~q.includeDeleted => HasRecord(findAll(todos, q).data, Get(ret.todo))

\* a record was soft-deleted and restored while another one is still soft-deleted
C1_Witness ==
  /\ call.op = "restore"
  /\ ret.todo # Undefined
  /\ \E i \in 1..Len(todos) : todos[i].deletedAt # Null

\* C2: every stored todo has completedAt non-null exactly when its status is
\* completed.
C2_CompletedAtIffCompleted ==
  \A i \in 1..Len(todos) :
    (todos[i].completedAt # Null) <=> (todos[i].status = "completed")

\* an update has just moved a completed todo to another status
C2_Witness ==
  /\ call.op = "update"
  /\ ret.todo # Undefined
  /\ Has(call.input, "status")
  /\ call.input.status = "cancelled"
  /\ Get(ret.todo).updatedAt > Get(ret.todo).createdAt
  /\ Get(ret.todo).completedAt = Null

\* C3 (as claimed): findAll with sortBy=dueDate returns every record without a
\* dueDate after every record with one, for asc and for desc.
NullsLast(data) ==
  \A i \in 1..Len(data), j \in 1..Len(data) :
    (i < j /\ data[i].dueDate = Null) => data[j].dueDate = Null

C3_DueDateNullsLast ==
  (call.op = "findAll" /\ call.query.sortBy = "dueDate") => NullsLast(Get(ret.page).data)

\* C4 (as claimed): a caller's write to a record it was handed, or to its tags
\* array, changes nothing that findById, findAll or getStats return.
C4_NoMutableReference ==
  [][ call'.op = "mutate" =>
        /\ \A id \in Ids, b \in BOOLEAN : findById(todos', id, b) = findById(todos, id, b)
        /\ \A q \in Queries : findAll(todos', q) = findAll(todos, q)
        /\ getStats(todos', clock) = getStats(todos, clock) ]_vars

\* the record stored under id; the id is missing or the record soft-deleted
Stored(ts, id) == Get(MapGet(ts, id))
NotLive(ts, id) == ~MapHas(ts, id) \/ Stored(ts, id).deletedAt # Null

\* a field of an update input in one of its three states
Kept(input, f) == ~Has(input, f)
Cleared(input, f) == Has(input, f) /\ input[f] = Null

\* C5: a successful update(id, patch) leaves each patchable field as it was
\* when the patch does not hold it, sets description or dueDate to null when
\* the patch gives null, and sets a field to the value the patch gives;
\* nothing but the supplied fields, updatedAt and (only when status is
\* supplied) completedAt changes.
C5_UpdateThreeStates ==
  [][ (call'.op = "update" /\ ret'.todo # Undefined) =>
        LET input == call'.input
            old == Stored(todos, call'.id)
            new == Stored(todos', call'.id)
        IN /\ \A f \in {"title", "priority", "status", "tags"} :
                new[f] = IF Kept(input, f) THEN old[f] ELSE input[f]
           /\ \A f \in {"description", "dueDate"} :
                new[f] = IF Kept(input, f) THEN old[f]
                         ELSE IF Cleared(input, f) THEN Null
                         ELSE input[f]
           /\ \A f \in {"id", "createdAt", "deletedAt"} : new[f] = old[f]
           /\ Kept(input, "status") => new.completedAt = old.completedAt
           /\ ret'.todo = Some(new) ]_vars

\* an update has just cleared a description that was set
C5_Witness ==
  /\ call.op = "update"
  /\ ret.todo # Undefined
  /\ Cleared(call.input, "description")
  /\ Get(ret.todo).description = Null
  /\ Get(ret.todo).title = <<"y">>
  /\ Get(ret.todo).dueDate = Some(DueMillis)

\* C6: a successful update(id, {}) sets updatedAt of that todo to the time of
\* the call and changes no other field of it and no other todo.
C6_EmptyPatchOnlyUpdatedAt ==
  [][ (call'.op = "update" /\ call'.input = EmptyPatch /\ ret'.todo # Undefined) =>
        /\ todos' = [todos EXCEPT ![IndexOf(todos, call'.id)].updatedAt = clock']
        /\ ret'.todo = MapGet(todos', call'.id) ]_vars

\* an empty patch has just been applied to a completed todo, next to another todo
C6_Witness ==
  /\ call.op = "update"
  /\ call.input = EmptyPatch
  /\ ret.todo # Undefined
  /\ Get(ret.todo).status = "completed"
  /\ Get(ret.todo).updatedAt > Get(ret.todo).createdAt
  /\ Len(todos) = 2

\* a successful update(id, patch) with patch.status = 'completed'
CompletingUpdate(c, r) ==
  /\ c.op = "update"
  /\ r # Undefined
  /\ Has(c.input, "status")
  /\ c.input.status = "completed"

\* C7 (as claimed): after a successful update with status 'completed', whatever
\* the prior status, completedAt of the returned record is a time not before
\* the updatedAt the record had before the call.
C7_CompletedAtNotBeforePriorUpdatedAt ==
  [][ CompletingUpdate(call', ret'.todo) =>
        /\ Get(ret'.todo).completedAt # Null
        /\ Get(Get(ret'.todo).completedAt) >= Stored(todos, call'.id).updatedAt ]_vars

\* C7 (amended): after a successful update with status 'completed' on a todo
\* that was not completed, completedAt of the returned record is the time of
\* the call, which is not before the updatedAt the record had; on a todo that
\* was completed already, completedAt is left as it was.
C7_CompletedAtOnTransition ==
  [][ CompletingUpdate(call', ret'.todo) =>
        LET old == Stored(todos, call'.id) IN
        IF old.status # "completed"
          THEN /\ Get(ret'.todo).completedAt = Some(clock')
               /\ clock' >= old.updatedAt
          ELSE Get(ret'.todo).completedAt = old.completedAt ]_vars

\* a completed todo, updated since, has just been set to completed again
C7_Witness ==
  /\ CompletingUpdate(call, ret.todo)
  /\ Get(ret.todo).completedAt # Null
  /\ Get(Get(ret.todo).completedAt) < Get(ret.todo).updatedAt

\* C8: update(id, patch) and softDelete(id) on an id that is missing or
\* soft-deleted return undefined and leave the store as it was.
C8_NotLiveIsNoOp ==
  [][ (call'.op \in {"update", "softDelete"} /\ NotLive(todos, call'.id)) =>
        /\ ret'.todo = Undefined
        /\ todos' = todos ]_vars

\* an update with a status has just been refused on a soft-deleted record
C8_Witness ==
  /\ call.op = "update"
  /\ Has(call.input, "status")
  /\ ret.todo = Undefined
  /\ MapHas(todos, call.id)
  /\ Stored(todos, call.id).deletedAt # Null

\* C9: restore(id) on a soft-deleted record sets its deletedAt to null and its
\* updatedAt to the time of the call, changes nothing else and returns the
\* record; on a live record or a missing id it returns undefined and leaves
\* the store as it was.
C9_RestoreOnlySoftDeleted ==
  [][ call'.op = "restore" =>
        IF MapHas(todos, call'.id) /\ Stored(todos, call'.id).deletedAt # Null
          THEN /\ todos' = [todos EXCEPT ![IndexOf(todos, call'.id)].deletedAt = Null,
                                         ![IndexOf(todos, call'.id)].updatedAt = clock']
               /\ ret'.todo = MapGet(todos', call'.id)
          ELSE /\ ret'.todo = Undefined
               /\ todos' = todos ]_vars

\* a restore has just been refused on a live record that had been changed before
C9_Witness ==
  /\ call.op = "restore"
  /\ ret.todo = Undefined
  /\ MapHas(todos, call.id)
  /\ Stored(todos, call.id).deletedAt = Null
  /\ clock > Stored(todos, call.id).updatedAt

\* the records of a store but the one with this id, in their order
Without(ts, id) == LET other(t) == t.id # id IN SelectSeq(ts, other)

\* C10: hardDelete(id) removes the record, live or soft-deleted, and returns
\* true exactly when there was one; afterwards findById(id, true), update,
\* softDelete and restore on that id return undefined and another
\* hardDelete(id) returns false; the other records stay as they were.
C10_HardDeleteRemoves ==
  [][ call'.op = "hardDelete" =>
        /\ ret'.removed = MapHas(todos, call'.id)
        /\ todos' = Without(todos, call'.id)
        /\ findById(todos', call'.id, TRUE) = Undefined
        /\ \A now \in 0..MaxClock :
             /\ \A input \in FieldPatches :
                  updateResult(todos', call'.id, input, now) = Undefined
             /\ softDeleteResult(todos', call'.id, now) = Undefined
             /\ restoreResult(todos', call'.id, now) = Undefined
        /\ hardDeleteResult(todos', call'.id) = FALSE ]_vars

\* a record has just been hard-deleted, and an older record is left
C10_Witness ==
  /\ call.op = "hardDelete"
  /\ ret.removed
  /\ Len(todos) = 1
  /\ clock = 1
  /\ todos[1].updatedAt = 0

\* C11: every create returns an identifier that no earlier create of this
\* store returned, whether or not the earlier record is still stored, live or
\* soft-deleted; the create adds one record and leaves the stored ones as
\* they were.
C11_IdNeverReused ==
  [][ call'.op = "create" =>
        /\ Get(ret'.todo).id \notin issued
        /\ ~MapHas(todos, Get(ret'.todo).id)
        /\ todos' = Append(todos, Get(ret'.todo)) ]_vars

\* a create has just followed the hard delete of an earlier record
C11_Witness ==
  /\ call.op = "create"
  /\ Cardinality(issued) >= 2
  /\ Len(todos) < Cardinality(issued)

\* C12: right after create(input), findById(id) of the returned id gives the
\* returned record, which has status 'pending', completedAt and deletedAt
\* null, createdAt = updatedAt, title, priority and tags of the input, and
\* description and dueDate of the input or null when the input has none; the
\* store holds one record more than before.
C12_CreateThenFindById ==
  [][ call'.op = "create" =>
        LET input == call'.input
            todo == Get(ret'.todo)
        IN /\ ret'.todo # Undefined
           /\ findById(todos', todo.id, FALSE) = ret'.todo
           /\ todo.status = "pending"
           /\ todo.completedAt = Null
           /\ todo.deletedAt = Null
           /\ todo.createdAt = todo.updatedAt
           /\ todo.title = input.title
           /\ todo.priority = input.priority
           /\ todo.tags = input.tags
           /\ todo.description =
                IF Has(input, "description") THEN Some(input.description) ELSE Null
           /\ todo.dueDate = IF Has(input, "dueDate") THEN Some(input.dueDate) ELSE Null
           /\ Len(todos') = Len(todos) + 1 ]_vars

\* a create with a description and a dueDate has just followed one without
C12_Witness ==
  /\ call.op = "create"
  /\ Has(call.input, "description")
  /\ Has(call.input, "dueDate")
  /\ Len(todos) = 2
  /\ todos[1].description = Null
  /\ todos[1].dueDate = Null
  /\ todos[2] = Get(ret.todo)

\* C13: a POST /todos whose body has no priority stores and returns a todo
\* with priority 'medium' and status 'pending'; every stored todo has one of
\* the four priorities and one of the four statuses.
C13_DefaultsAndEnums ==
  /\ (call.op = "POST /todos" /\ call.status = 201 /\ ~Has(call.body, "priority")) =>
       /\ Get(ret.todo).priority = "medium"
       /\ Get(ret.todo).status = "pending"
       /\ MapGet(todos, Get(ret.todo).id) = ret.todo
  /\ \A i \in 1..Len(todos) :
       /\ todos[i].priority \in TodoPriority
       /\ todos[i].status \in TodoStatus

\* a body without a priority has just been posted, next to a record whose
\* priority and status were changed
C13_Witness ==
  /\ call.op = "POST /todos"
  /\ call.status = 201
  /\ ~Has(call.body, "priority")
  /\ Len(todos) = 2
  /\ todos[1].priority = "urgent"
  /\ todos[1].status = "in_progress"

\* two texts are equal, or one holds the other, when case is ignored
EqualIgnoringCase(a, b) == toLowerCase(a) = toLowerCase(b)
ContainsIgnoringCase(text, part) == includes(toLowerCase(text), toLowerCase(part))

\* a record is visible to a query and passes every filter the query supplies
Matches(todo, query) ==
  /\ query.includeDeleted \/ todo.deletedAt = Null
  /\ Has(query, "status") => todo.status = query.status
  /\ Has(query, "priority") => todo.priority = query.priority
  /\ Has(query, "tag") =>
       \E i \in 1..Len(todo.tags) : EqualIgnoringCase(todo.tags[i], query.tag)
  /\ Has(query, "search") =>
       \/ ContainsIgnoringCase(todo.title, query.search)
       \/ /\ todo.description # Null
          /\ ContainsIgnoringCase(Get(todo.description), query.search)

\* C14 (as claimed): findAll counts, and on a page that takes them all
\* returns, exactly the stored records that are visible and pass every
\* supplied filter: each such record once, and no other.
C14_FindAllExactlyMatching ==
  call.op = "findAll" =>
    LET query == call.query
        data == Get(ret.page).data
        matching == {i \in 1..Len(todos) : Matches(todos[i], query)}
    IN /\ Get(ret.page).pagination.total = Cardinality(matching)
       /\ (query.page = 1 /\ query.limit >= Len(todos)) =>
            /\ Len(data) = Cardinality(matching)
            /\ \A i \in 1..Len(todos) : i \in matching <=> HasRecord(data, todos[i])

\* the place of a priority in the order low, medium, high, urgent
PriorityRank(p) ==
  CHOOSE i \in 1..4 : <<"low", "medium", "high", "urgent">>[i] = p

\* C15: findAll with sortBy=priority returns the records in the order low,
\* medium, high, urgent when sortOrder is asc, and in the order urgent, high,
\* medium, low when it is desc.
C15_PrioritySortOrder ==
  (call.op = "findAll" /\ call.query.sortBy = "priority") =>
    LET data == Get(ret.page).data IN
    \A i \in 1..Len(data), j \in 1..Len(data) :
      i < j =>
        IF call.query.sortOrder = "asc"
          THEN PriorityRank(data[i].priority) <= PriorityRank(data[j].priority)
          ELSE PriorityRank(data[i].priority) >= PriorityRank(data[j].priority)

\* records created in the order urgent, high, medium, low have just been
\* listed ascending: low, medium, high, urgent
C15_Witness ==
  /\ call.op = "findAll"
  /\ call.query.sortBy = "priority"
  /\ call.query.sortOrder = "asc"
  /\ [i \in 1..Len(todos) |-> todos[i].priority] = <<"urgent", "high", "medium", "low">>
  /\ [i \in 1..Len(Get(ret.page).data) |-> Get(ret.page).data[i].priority]
       = <<"low", "medium", "high", "urgent">>

\* the least number of pages of a size that hold a number of records
PagesFor(total, limit) ==
  CHOOSE n \in 0..total : n * limit >= total /\ \A m \in 0..total : m * limit >= total => n <= m

\* the part of a sequence from offset + 1 on, at most limit long
PageOf(s, offset, limit) ==
  LET left == IF Len(s) > offset THEN Len(s) - offset ELSE 0
      size == IF limit < left THEN limit ELSE left
  IN [i \in 1..size |-> s[offset + i]]

\* C16: findAll returns total = the number of matches, totalPages =
\* ceil(total / limit), hasNextPage = (page < totalPages), hasPrevPage =
\* (page > 1) and as data the sorted matches from position (page-1)*limit on,
\* at most limit of them; of 25 matches with limit 10, page 1 has 10 and
\* page 3 has 5, in 3 pages.
C16_Pagination ==
  /\ call.op = "findAll" =>
       LET query == call.query
           page == Get(ret.page)
           matches == sortedResults(todos, query)
       IN /\ page.pagination.page = query.page
          /\ page.pagination.limit = query.limit
          /\ page.pagination.total = Len(matches)
          /\ page.pagination.totalPages = PagesFor(Len(matches), query.limit)
          /\ page.pagination.hasNextPage = (query.page < PagesFor(Len(matches), query.limit))
          /\ page.pagination.hasPrevPage = (query.page > 1)
          /\ page.data = PageOf(matches, (query.page - 1) * query.limit, query.limit)
  /\ LET s == [i \in 1..25 |-> i] IN
       /\ ceilDiv(25, 10) = 3
       /\ Len(slice(s, 0, 10)) = 10
       /\ slice(s, 20, 30) = <<21, 22, 23, 24, 25>>

\* the second page of one record each has just been read from two matches
C16_Witness ==
  /\ call.op = "findAll"
  /\ call.query.page = 2
  /\ call.query.limit = 1
  /\ Get(ret.page).pagination.total = 2
  /\ Get(ret.page).data = <<todos[2]>>
  /\ ~Get(ret.page).pagination.hasNextPage
  /\ Get(ret.page).pagination.hasPrevPage

\* the instant an ISO text names, in ticks: a text without a fraction names
\* the start of its second
instantOf(text) == text.sec * 1000 + (IF text.ms = Null THEN 0 ELSE Get(text.ms))

\* the count an object of counts gives for a key: none when the key is absent
CountOf(counts, key) == IF key \in DOMAIN counts THEN counts[key] ELSE 0

\* C17 (as claimed): getStats counts the live records only: total, the
\* number with each status and with each priority, and as overdue those with
\* a dueDate that names an instant before now and a status that is neither
\* completed nor cancelled.
C17_StatsCountLive ==
  call.op = "getStats" =>
    LET stats == Get(ret.stats)
        live == {i \in 1..Len(todos) : todos[i].deletedAt = Null}
    IN /\ stats.total = Cardinality(live)
       /\ \A st \in TodoStatus :
            CountOf(stats.byStatus, st) = Cardinality({i \in live : todos[i].status = st})
       /\ \A p \in TodoPriority :
            CountOf(stats.byPriority, p) = Cardinality({i \in live : todos[i].priority = p})
       /\ stats.overdue =
            Cardinality({i \in live : /\ todos[i].dueDate # Null
                                      /\ instantOf(Get(todos[i].dueDate)) < clock
                                      /\ todos[i].status \notin {"completed", "cancelled"}})

\* C18: findById, findAll and getStats leave the store as it was: the same
\* records with the same fields in the same order.
C18_ReadsArePure ==
  [][ call'.op \in {"findById", "findAll", "getStats"} => todos' = todos ]_vars

\* a findAll has just returned two records in another order than the store's
C18_Witness ==
  /\ call.op = "findAll"
  /\ Len(todos) = 2
  /\ Get(ret.page).data = <<todos[2], todos[1]>>

\* C19: update(id, {status: t}) on a live todo succeeds and leaves it with
\* status t, for each of the four statuses t and whatever status the todo
\* has: on every such step, and for every live record of every state and
\* every t were the call made there.
C19_AnyStatusTransition ==
  /\ [][ (call'.op = "update" /\ Has(call'.input, "status") /\ ~NotLive(todos, call'.id)) =>
           /\ ret'.todo # Undefined
           /\ Get(ret'.todo).status = call'.input.status
           /\ MapGet(todos', call'.id) = ret'.todo ]_vars
  /\ [](\A i \in 1..Len(todos), t \in TodoStatus, now \in Nows :
           todos[i].deletedAt = Null =>
             /\ updateResult(todos, todos[i].id, [status |-> t], now) # Undefined
             /\ Get(updateResult(todos, todos[i].id, [status |-> t], now)).status = t
             /\ MapGet(updateStore(todos, todos[i].id, [status |-> t], now), todos[i].id)
                  = updateResult(todos, todos[i].id, [status |-> t], now))

\* a completed todo has just been set to completed again at a later tick:
\* the update went through and left the completedAt of the first time
C19_Witness ==
  /\ call.op = "update"
  /\ call.input = [status |-> "completed"]
  /\ ret.todo # Undefined
  /\ Get(ret.todo).status = "completed"
  /\ Get(ret.todo).completedAt = Some(Get(ret.todo).createdAt)
  /\ Get(ret.todo).updatedAt > Get(ret.todo).createdAt

\* C20: with a clock that does not go backwards, every stored record has
\* updatedAt >= createdAt; a successful update, softDelete or restore sets
\* updatedAt of its record to the time of the call; no step lowers the
\* updatedAt of a record, changes its createdAt or files it under another id.
C20_UpdatedAtMonotone ==
  /\ [](\A i \in 1..Len(todos) : todos[i].updatedAt >= todos[i].createdAt)
  /\ [][ /\ (call'.op \in {"update", "softDelete", "restore"} /\ ret'.todo # Undefined) =>
               /\ clock' >= clock
               /\ Get(ret'.todo).updatedAt = clock'
               /\ MapGet(todos', call'.id) = ret'.todo
          /\ \A i \in 1..Len(todos), j \in 1..Len(todos') :
               todos'[j].id = todos[i].id =>
                 /\ todos'[j].updatedAt >= todos[i].updatedAt
                 /\ todos'[j].createdAt = todos[i].createdAt ]_vars

\* a record created at tick 0 and soft-deleted has just been restored at a
\* later tick
C20_Witness ==
  /\ call.op = "restore"
  /\ ret.todo # Undefined
  /\ Get(ret.todo).createdAt = 0
  /\ Get(ret.todo).updatedAt = MaxClock
  /\ clock = MaxClock

\* C21: in every reachable state a stored record has deletedAt = null exactly
\* when findById(id) with the default flag returns it, and findAll without
\* filters and with includeDeleted=false reports as total the number of
\* records with deletedAt = null and returns each of them.
C21_DeletedAtIffVisible ==
  /\ \A i \in 1..Len(todos) :
       /\ (todos[i].deletedAt = Null) <=> (findById(todos, todos[i].id, FALSE) = Some(todos[i]))
       /\ (todos[i].deletedAt = Null) <=>
            HasRecord(findAll(todos, DefaultQuery(FALSE)).data, todos[i])
  /\ findAll(todos, DefaultQuery(FALSE)).pagination.total =
       Cardinality({i \in 1..Len(todos) : todos[i].deletedAt = Null})

\* a record has just been soft-deleted next to a live one that was changed
\* after it was created
C21_Witness ==
  /\ call.op = "softDelete"
  /\ ret.todo # Undefined
  /\ Len(todos) = 2
  /\ \E i \in 1..2 :
       /\ todos[i].deletedAt = Null
       /\ todos[i].updatedAt > todos[i].createdAt

\* the routes that take an id: the store has no record for the request
IdRoutes ==
  {"GET /todos/:id", "PATCH /todos/:id", "DELETE /todos/:id", "POST /todos/:id/restore"}
Absent(ts, request) ==
  CASE request.op = "GET /todos/:id" ->
         ~\E i \in 1..Len(ts) :
            /\ ts[i].id = request.id
            /\ request.includeDeleted \/ ts[i].deletedAt = Null
    [] request.op = "PATCH /todos/:id" -> NotLive(ts, request.id)
    [] request.op = "DELETE /todos/:id" ->
         IF request.permanent THEN ~InData(ts, request.id) ELSE NotLive(ts, request.id)
    [] request.op = "POST /todos/:id/restore" ->
         ~\E i \in 1..Len(ts) : ts[i].id = request.id /\ ts[i].deletedAt # Null

\* C22: a valid request to GET, PATCH, DELETE /todos/:id or POST
\* /todos/:id/restore is answered 404 NOT_FOUND exactly when the store has no
\* record for it (GET: none visible under includeDeleted; PATCH and DELETE:
\* missing or soft-deleted; restore: missing or not soft-deleted; permanent
\* DELETE: no record at all); a 404 leaves the store as it was; a permanent
\* DELETE that finds a record answers 204 and removes it; the others answer 200.
C22_NotFoundIffAbsent ==
  [][ (call'.op \in IdRoutes /\ call'.status # 400) =>
        /\ (call'.status = 404) <=> Absent(todos, call')
        /\ (call'.status = 404) <=> (call'.code = "NOT_FOUND")
        /\ call'.status = 404 => todos' = todos
        /\ call'.status # 404 =>
             IF call'.op = "DELETE /todos/:id" /\ call'.permanent
               THEN /\ call'.status = 204
                    /\ todos' = Without(todos, call'.id)
                    /\ Len(todos') = Len(todos) - 1
               ELSE call'.status = 200 ]_vars

\* DELETE /todos/:id has just answered 404 for a record that is stored but
\* soft-deleted already
C22_Witness ==
  /\ call.op = "DELETE /todos/:id"
  /\ ~call.permanent
  /\ call.status = 404
  /\ MapHas(todos, call.id)
  /\ Stored(todos, call.id).deletedAt # Null

\* the request failed the schema of its body, query or params
FailsSchema(request) ==
  \/ Has(request, "id") /\ request.id = BadId
  \/ request.op = "POST /todos" /\ ~createBodyValid(request.body)
  \/ request.op = "PATCH /todos/:id" /\ ~updateBodyValid(request.body)
  \/ request.op = "GET /todos" /\ ~listQueryValid(request.query)

\* C23: a request whose body, query or params fails its schema is answered
\* 400 VALIDATION_ERROR, no store method is called for it and the store is
\* as it was; a request answered 400 is one that failed its schema.
C23_InvalidNeverReachesStore ==
  [][ Has(call', "status") =>
        /\ FailsSchema(call') =>
             /\ call'.status = 400
             /\ call'.code = "VALIDATION_ERROR"
             /\ call'.store = <<>>
             /\ todos' = todos
             /\ nextId' = nextId
        /\ call'.status = 400 => FailsSchema(call') ]_vars

\* PATCH with an empty title has just been refused for a todo that is stored
\* and live
C23_Witness ==
  /\ call.op = "PATCH /todos/:id"
  /\ call.body = EmptyTitlePatch
  /\ call.status = 400
  /\ MapHas(todos, call.id)
  /\ Stored(todos, call.id).deletedAt = Null
  /\ Stored(todos, call.id).title # <<>>

\* C24: a handler works on the store as it is when it runs, whatever was
\* handled since its request arrived: a PATCH answered 200 changes, in the
\* store of that moment, the fields of its body and updatedAt of its record
\* and nothing else; so when a PATCH of the title and a PATCH of the priority
\* of one todo were both answered 200, in whichever order, the record has the
\* new title and the new priority.
C24_NoLostUpdate ==
  /\ [](\A r1, r2 \in requests :
          ( /\ r1.id = r2.id
            /\ r1.body = TitlePatch /\ r1.status = 200
            /\ r2.body = PriorityPatch /\ r2.status = 200 ) =>
          /\ MapHas(todos, r1.id)
          /\ Stored(todos, r1.id).title = <<"z">>
          /\ Stored(todos, r1.id).priority = "low")
  /\ [][ (call'.op = "PATCH /todos/:id" /\ call'.status = 200) =>
           /\ Len(todos') = Len(todos)
           /\ \A i \in 1..Len(todos) :
                IF todos[i].id = call'.id
                  THEN \A f \in DOMAIN todos[i] \ (DOMAIN call'.body \cup {"updatedAt"}) :
                         todos'[i][f] = todos[i][f]
                  ELSE todos'[i] = todos[i] ]_vars

\* both PATCH requests for todo 1 were answered 200, and each had arrived
\* before the other was handled
C24_Witness ==
  \E r1, r2 \in requests :
    /\ r1.id = 1 /\ r2.id = 1
    /\ r1.body = TitlePatch /\ r1.status = 200
    /\ r2.body = PriorityPatch /\ r2.status = 200
    /\ MapHas(r1.seen, 1) /\ Stored(r1.seen, 1).priority = "medium"
    /\ MapHas(r2.seen, 1) /\ Stored(r2.seen, 1).title = <<"y">>

\* C25 (as claimed): whenever findAll is given a tag filter, the empty tag
\* included, every record it returns has a tag equal to the filter value when
\* case is ignored.
C25_TagFilterHolds ==
  (call.op = "findAll" /\ Has(call.query, "tag")) =>
    \A i \in 1..Len(Get(ret.page).data) :
      \E k \in 1..Len(Get(ret.page).data[i].tags) :
        EqualIgnoringCase(Get(ret.page).data[i].tags[k], call.query.tag)

\* the fields softDelete and restore may change, and the others
FrameFields ==
  {"id", "title", "description", "status", "priority", "dueDate", "tags",
   "createdAt", "completedAt"}

\* C26: a successful softDelete or restore changes deletedAt and updatedAt of
\* its record and nothing else: the other fields of the record, completedAt
\* and status among them, and every other record stay as they were, and the
\* returned record is the stored one.
C26_DeleteRestoreFrame ==
  [][ (call'.op \in {"softDelete", "restore"} /\ ret'.todo # Undefined) =>
        /\ Len(todos') = Len(todos)
        /\ \A i \in 1..Len(todos) :
             IF todos[i].id = call'.id
               THEN /\ \A f \in FrameFields : todos'[i][f] = todos[i][f]
                    /\ todos'[i].deletedAt =
                         IF call'.op = "softDelete" THEN Some(clock') ELSE Null
                    /\ todos'[i].updatedAt = clock'
                    /\ ret'.todo = Some(todos'[i])
               ELSE todos'[i] = todos[i] ]_vars

\* a todo completed at tick 0 has just been restored at a later tick, still
\* completed and with the completedAt of tick 0
C26_Witness ==
  /\ call.op = "restore"
  /\ ret.todo # Undefined
  /\ Get(ret.todo).status = "completed"
  /\ Get(ret.todo).completedAt = Some(0)
  /\ Get(ret.todo).updatedAt = MaxClock
  /\ Get(ret.todo).deletedAt = Null

\* C27: a successful update with status 'completed' on a todo that is
\* completed already leaves completedAt as it was, and a successful update
\* without a status leaves completedAt as it was.
C27_CompletedAtKept ==
  [][ (call'.op = "update" /\ ret'.todo # Undefined) =>
        LET old == Stored(todos, call'.id)
            new == Get(ret'.todo)
        IN /\ (Has(call'.input, "status") /\ call'.input.status = "completed"
                 /\ old.status = "completed") =>
                /\ new.completedAt = old.completedAt
                /\ new.status = "completed"
           /\ ~Has(call'.input, "status") =>
                /\ new.completedAt = old.completedAt
                /\ new.status = old.status ]_vars

\* an empty patch has just been applied, at a later tick, to a todo that was
\* completed at tick 0
C27_Witness ==
  /\ call.op = "update"
  /\ call.input = EmptyPatch
  /\ ret.todo # Undefined
  /\ Get(ret.todo).completedAt = Some(0)
  /\ Get(ret.todo).updatedAt = MaxClock

\* C30 (as claimed): in every reachable state every soft-deleted record has
\* deletedAt equal to its updatedAt, and a step that changes or removes a
\* soft-deleted record is a restore or a hardDelete of that record.
C30_DeletedAtIsUpdatedAt ==
  /\ [](\A i \in 1..Len(todos) :
          todos[i].deletedAt # Null =>
            todos[i].deletedAt = Some(todos[i].updatedAt))
  /\ [][ \A i \in 1..Len(todos) :
           todos[i].deletedAt # Null =>
             \/ HasRecord(todos', todos[i])
             \/ /\ call'.op \in {"restore", "hardDelete"}
                /\ call'.id = todos[i].id ]_vars

\* C30 (amended): in every reachable state every soft-deleted record has
\* deletedAt equal to its updatedAt, and a step that changes or removes a
\* soft-deleted record is a restore or a hardDelete of that record, or a
\* clear of the store.
C30_SoftDeletedFrozen ==
  /\ [](\A i \in 1..Len(todos) :
          todos[i].deletedAt # Null =>
            todos[i].deletedAt = Some(todos[i].updatedAt))
  /\ [][ \A i \in 1..Len(todos) :
           todos[i].deletedAt # Null =>
             \/ HasRecord(todos', todos[i])
             \/ /\ call'.op \in {"restore", "hardDelete"}
                /\ call'.id = todos[i].id
             \/ /\ call'.op = "clear"
                /\ todos' = <<>> ]_vars

\* an update has just been refused on a record that was soft-deleted at a
\* tick after its creation, while the clock has not moved since
C30_Witness ==
  /\ call.op = "update"
  /\ ret.todo = Undefined
  /\ MapHas(todos, call.id)
  /\ Stored(todos, call.id).deletedAt = Some(MaxClock)
  /\ Stored(todos, call.id).createdAt = 0

\* C28: in what findAll returns, two records whose sort keys compare equal
\* stand in the order of their creation, with sortOrder asc and with desc,
\* whatever updates, soft deletes and restores they went through since; and
\* asking again in the same state gives the same answer.
C28_TiesInCreationOrder ==
  call.op = "findAll" =>
    LET data == Get(ret.page).data IN
    /\ \A i, j \in 1..Len(data) :
         (i < j /\ comparison(data[i], data[j], call.query) = 0) =>
           data[i].id < data[j].id
    /\ ret.page = Some(findAll(todos, call.query))

\* two todos equal in priority were listed in descending order after the
\* first one was written again at a later tick: the first one still leads
C28_Witness ==
  /\ call.op = "findAll"
  /\ call.query.sortBy = "priority"
  /\ call.query.sortOrder = "desc"
  /\ Len(Get(ret.page).data) = 2
  /\ Get(ret.page).data[1].id = 1
  /\ Get(ret.page).data[1].updatedAt > Get(ret.page).data[2].updatedAt

\* the data of pages 1..n of a query, one after the other
RECURSIVE PagesUpTo(_, _, _)
PagesUpTo(ts, query, n) ==
  IF n = 0 THEN <<>>
  ELSE PagesUpTo(ts, query, n - 1) \o findAll(ts, [query EXCEPT !.page = n]).data

\* C29: for the query of any findAll call, the pages 1..totalPages put one
\* after the other are the matching records in sort order, each once; a page
\* beyond totalPages (any page when nothing matches) has no data and no next
\* page.
C29_PagesPartition ==
  call.op = "findAll" =>
    LET page == Get(ret.page)
        matches == sortTodos(SelectSeq(todos, LAMBDA t : Matches(t, call.query)), call.query)
    IN /\ PagesUpTo(todos, call.query, page.pagination.totalPages) = matches
       /\ \A i, j \in 1..Len(matches) : i # j => matches[i].id # matches[j].id
       /\ call.query.page > page.pagination.totalPages =>
            /\ page.data = <<>>
            /\ ~page.pagination.hasNextPage
       /\ page.pagination.total = 0 => page.pagination.totalPages = 0

\* the page after the last of two one-record pages has just come back empty
C29_Witness ==
  /\ call.op = "findAll"
  /\ call.query.limit = 1
  /\ call.query.page = 3
  /\ Get(ret.page).pagination.totalPages = 2
  /\ Get(ret.page).data = <<>>

====
